---- MODULE Spec2Model ----
(***************************************************************************)
(* Model of the streaming chat client of rag-demo (frontend).              *)
(*                                                                         *)
(* Specification Spec models the conversation hook useChat                 *)
(* (src/frontend/hooks/useChat.ts) together with the lifecycle of the      *)
(* request it drives (streamChat, src/frontend/lib/api.ts).                *)
(*                                                                         *)
(* Granularity.  JavaScript runs one task turn at a time, so every action  *)
(* below is one synchronous stretch of code between two suspension points  *)
(* (the call of sendMessage up to the first await inside streamChat, the   *)
(* body of the for-await loop for one event, the catch/finally blocks).    *)
(* Other operations of the hook may run between any two such stretches.    *)
(*                                                                         *)
(* React state.  messages, isLoading and error are useState cells.  The    *)
(* hook code never reads them directly (sendMessage has no dependencies    *)
(* and reads only refs), it only dispatches updates; React applies queued  *)
(* updates in dispatch order.  The variables messages, isLoading and error *)
(* therefore hold the state with every dispatched update applied, which is *)
(* what the next render publishes.  What the queue does change is WHEN an  *)
(* updater function runs: React runs it at dispatch time only when the     *)
(* component has no update pending, and otherwise during the next render.  *)
(* Whether an update is pending when an operation starts depends on when   *)
(* React last rendered, so each operation takes it as an input (pending);  *)
(* from there on the operation tracks its own dispatches, so that the side *)
(* effect inside the updater of sendMessage (the history capture) happens  *)
(* when React would perform it.                                            *)
(*                                                                         *)
(* JavaScript values are tagged records [t, v]; texts are sequences of     *)
(* one-character strings (the UI texts of constants.ts are one symbol      *)
(* each).  generateId is modelled as a fresh counter (Math.random          *)
(* collisions are not modelled).                                           *)
(***************************************************************************)
EXTENDS Integers, Sequences, FiniteSets, TLC

(***************************************************************************)
(* Bounds of the model.                                                    *)
(***************************************************************************)
MaxCalls == 2        \* accepted sendMessage calls per behaviour
MaxEvents == 2       \* events folded per behaviour, over all requests

(***************************************************************************)
(* JavaScript values.                                                      *)
(***************************************************************************)
Null == [t |-> "null", v |-> <<>>]
Undefined == [t |-> "undefined", v |-> <<>>]
Str(s) == [t |-> "string", v |-> s]
True == [t |-> "boolean", v |-> <<"true">>]
False == [t |-> "boolean", v |-> <<"false">>]
\* Object.prototype.constructor, the value every plain object inherits
\* under the key "constructor".
ObjectFn == [t |-> "function", v |-> <<"Object">>]
\* The result of calling Object(x): a fresh wrapper object, never a string.
ObjectOf(x) == [t |-> "object", v |-> <<"Object(">> \o x.v \o <<")">>]

Truthy(x) ==
    \/ x.t \in {"function", "object"}
    \/ x.t = "string" /\ x.v # <<>>
    \/ x = True

(***************************************************************************)
(* constants.ts                                                            *)
(***************************************************************************)
UI_TEXT_networkError == Str(<<"networkError">>)
UI_TEXT_rateLimitError == Str(<<"rateLimitError">>)
UI_TEXT_serverError == Str(<<"serverError">>)
UI_TEXT_quotaExhausted == Str(<<"quotaExhausted">>)
UI_TEXT_geminiRateLimited == Str(<<"geminiRateLimited">>)

\* The own keys of the object literal ERROR_CODE_MESSAGES.
RecognizedCodes ==
    {"RATE_LIMITED", "QUOTA_EXHAUSTED", "RATE_LIMIT_EXCEEDED",
     "GLOBAL_RATE_LIMIT_EXCEEDED", "GEMINI_ERROR", "LLM_ERROR", "INTERNAL_ERROR"}

TableMessage(code) ==
    CASE code = "RATE_LIMITED" -> UI_TEXT_geminiRateLimited
      [] code = "QUOTA_EXHAUSTED" -> UI_TEXT_quotaExhausted
      [] code = "RATE_LIMIT_EXCEEDED" -> UI_TEXT_rateLimitError
      [] code = "GLOBAL_RATE_LIMIT_EXCEEDED" -> UI_TEXT_rateLimitError
      [] code = "GEMINI_ERROR" -> UI_TEXT_serverError
      [] code = "LLM_ERROR" -> UI_TEXT_serverError
      [] code = "INTERNAL_ERROR" -> UI_TEXT_serverError

\* ERROR_CODE_MESSAGES[code]: a property read on a plain object literal.
\* Own keys give the table text; a key of Object.prototype gives the
\* inherited value; any other key gives undefined.
ERROR_CODE_MESSAGES(code) ==
    IF code \in RecognizedCodes THEN TableMessage(code)
    ELSE IF code = "constructor" THEN ObjectFn
    ELSE Undefined

(***************************************************************************)
(* Inputs.                                                                 *)
(***************************************************************************)
Whitespace == {" "}

\* The content arguments of sendMessage: "", "  " and " a ".
Contents == {<<>>, <<" ", " ">>, <<" ", "a", " ">>}

Tokens == {<<"x">>, <<"y">>}

WireSource1 ==
    [filename |-> "sample.txt", start_line |-> 1, end_line |-> 10,
     content_preview |-> "preview"]
WireSourceLists == {<<WireSource1>>}

\* Further payloads of the sources event, for streams that carry several
\* of them (specification SpecTurn): no source, and two sources.
WireSource2 ==
    [filename |-> "notes.md", start_line |-> 10, end_line |-> 1,
     content_preview |-> "other"]
TurnSourceLists == {<<>>, <<WireSource1>>, <<WireSource2, WireSource1>>}
TurnEvents ==
    {[type |-> "sources", sources |-> s] : s \in TurnSourceLists}
    \cup {[type |-> "token", token |-> t] : t \in Tokens}
    \cup {[type |-> "done"]}

ChunkPayloads ==
    {[chunks |-> <<"chunk1">>, document_set |-> "original", strategy |-> "standard"]}

ErrorCodes == {"RATE_LIMITED", "500", "constructor"}
ErrorTexts == {Str(<<"Server error">>)}

\* The typed events streamChat can yield: the five tags the hook switches
\* on, and one tag it does not know.
Events ==
    {[type |-> "token", token |-> t] : t \in Tokens}
    \cup {[type |-> "sources", sources |-> s] : s \in WireSourceLists}
    \cup {[type |-> "chunks", data |-> k] : k \in ChunkPayloads}
    \cup {[type |-> "done"]}
    \cup {[type |-> "error", code |-> c, message |-> m] :
            c \in ErrorCodes, m \in ErrorTexts}
    \cup {[type |-> "ping"]}

\* What the try block can throw: an Error with its message, or a value that
\* is not an Error.
\* Events whose payload is the JSON value null: JSON.parse accepts it and
\* streamChat yields it (api.ts lines 186-187).
NullPayloadEvents == {[type |-> "token", data |-> Null]}

Thrown ==
    {[isError |-> TRUE, message |-> Str(<<"Failed to fetch">>)],
     [isError |-> FALSE, message |-> Undefined]}
ChatRequestFailed == [isError |-> TRUE, message |-> Str(<<"Chat request failed">>)]
NoResponseBody == [isError |-> TRUE, message |-> Str(<<"No response body">>)]

(***************************************************************************)
(* State.                                                                  *)
(***************************************************************************)
VARIABLES
    messages,            \* useState<MessageWithChunks[]>([])
    isLoading,           \* useState(false)
    error,               \* useState<string | null>(null)
    abortControllerRef,  \* useRef(null): 0, or the call that set it
    isLoadingRef,        \* useRef(false)
    calls,               \* the invocations of sendMessage that passed the guard:
                         \* pc and the locals message, history, assistantId,
                         \* fullContent; the other fields are history
                         \* variables (prior: messages when the call was
                         \* accepted, folded: the tokens folded so far,
                         \* sawError/sawDone: an error/done event was folded,
                         \* cleared: clearMessages ran since the call began)
    nextId,              \* generateId
    lastOp,              \* history variable: the step taken last
    openBodies           \* the calls whose response body is open and held
                         \* by the reader of api.ts line 161: from
                         \* getReader() until the stream ends, fails or is
                         \* cancelled

vars ==
    <<messages, isLoading, error, abortControllerRef, isLoadingRef, calls,
      nextId, lastOp, openBodies>>

NoSources == [set |-> FALSE, list |-> <<>>]
NoChunks == [set |-> FALSE, chunks |-> <<>>, documentSet |-> "", strategy |-> ""]

(***************************************************************************)
(* Pure helpers.                                                           *)
(***************************************************************************)
RECURSIVE TrimStart(_)
TrimStart(s) ==
    IF s # <<>> /\ Head(s) \in Whitespace THEN TrimStart(Tail(s)) ELSE s

RECURSIVE TrimEnd(_)
TrimEnd(s) ==
    IF s # <<>> /\ s[Len(s)] \in Whitespace
    THEN TrimEnd(SubSeq(s, 1, Len(s) - 1))
    ELSE s

\* String.prototype.trim
Trim(s) == TrimEnd(TrimStart(s))

\* prev.map((m) => ({role: m.role, content: m.content}))
HistoryOf(msgs) ==
    [i \in 1..Len(msgs) |-> [role |-> msgs[i].role, content |-> msgs[i].content]]

\* parseSourcesFromAPI
\* Mutants: the mapper returns the elements in reverse order; the mapper
\* exchanges the two line numbers.
parseSourcesFromAPIReversed(apiSources) ==
    [i \in 1..Len(apiSources) |->
        LET s == apiSources[Len(apiSources) + 1 - i]
        IN  [filename |-> s.filename, startLine |-> s.start_line,
             endLine |-> s.end_line, contentPreview |-> s.content_preview]]
parseSourcesFromAPISwapped(apiSources) ==
    [i \in 1..Len(apiSources) |->
        [filename |-> apiSources[i].filename,
         startLine |-> apiSources[i].end_line,
         endLine |-> apiSources[i].start_line,
         contentPreview |-> apiSources[i].content_preview]]

parseSourcesFromAPI(apiSources) ==
    [i \in 1..Len(apiSources) |->
        [filename |-> apiSources[i].filename,
         startLine |-> apiSources[i].start_line,
         endLine |-> apiSources[i].end_line,
         contentPreview |-> apiSources[i].content_preview]]

\* prev.map((m) => cond(m) ? f(m) : m), with hit the positions where cond
\* holds and new the function that gives f(m) at those positions.
MapWhere(msgs, hit, new) ==
    [i \in 1..Len(msgs) |-> IF i \in hit THEN new[i] ELSE msgs[i]]

\* React's basicStateReducer: a function passed to a state setter is called
\* with the previous state, anything else is the next state.
SetStateAction(prev, action) ==
    IF action.t = "function" THEN ObjectOf(prev) ELSE action

\* React's dispatchSetState: with no update pending the next state is
\* computed at once and an unchanged state schedules nothing; otherwise the
\* update is queued for the next render.
Enqueued(pending, cur, new) == pending \/ cur # new

Init ==
    /\ messages = <<>>
    /\ isLoading = FALSE
    /\ error = Null
    /\ abortControllerRef = 0
    /\ isLoadingRef = FALSE
    /\ calls = <<>>
    /\ nextId = 1
    /\ lastOp = [op |-> "init"]
    /\ openBodies = {}


(***************************************************************************)
(* sendMessage, lines 32-76: from the call to the first suspension, which  *)
(* is the await of fetch inside streamChat (the generator body starts      *)
(* running when the for-await loop asks for the first event).              *)
(***************************************************************************)
\* Mutants of the guard: one that does not look at the in-flight flag, one
\* that tests the content without trimming it.
AcceptsIgnoringFlag(content) == Trim(content) # <<>>
AcceptsUntrimmed(content) == content # <<>> /\ ~isLoadingRef

\* line 33: if (!content.trim() || isLoadingRef.current) return;
Accepts(content) == Trim(content) # <<>> /\ ~isLoadingRef

\* Mutant: the user message keeps the content as typed.
UserMessageUntrimmed(id, content) ==
    [id |-> id, role |-> "user", content |-> Str(content),
     isStreaming |-> FALSE, sources |-> NoSources, chunks |-> NoChunks]

\* lines 40-45
UserMessage(id, content) ==
    [id |-> id, role |-> "user", content |-> Str(Trim(content)),
     isStreaming |-> FALSE, sources |-> NoSources, chunks |-> NoChunks]

\* Mutant: the placeholder is created without isStreaming.
AssistantMessageNotStreaming(id) ==
    [id |-> id, role |-> "assistant", content |-> Str(<<>>),
     isStreaming |-> FALSE, sources |-> NoSources, chunks |-> NoChunks]

\* lines 48-54
AssistantMessage(id) ==
    [id |-> id, role |-> "assistant", content |-> Str(<<>>),
     isStreaming |-> TRUE, sources |-> NoSources, chunks |-> NoChunks]

\* lines 57-65: capturedHistory starts as [] and is assigned inside the
\* updater passed to setMessages.  ranAtDispatch tells whether React ran
\* the updater before setMessages returned.
CapturedHistory(prev, ranAtDispatch) ==
    IF ranAtDispatch THEN HistoryOf(prev) ELSE <<>>

\* Mutants: the new pair is put in front of the list; the placeholder is
\* put before the user message.
AppendPairInFront(prev, userMessage, assistantMessage) ==
    <<userMessage, assistantMessage>> \o prev
AppendPairSwapped(prev, userMessage, assistantMessage) ==
    prev \o <<assistantMessage, userMessage>>

\* line 64: return [...prev, userMessage, assistantMessage];
AppendPair(prev, userMessage, assistantMessage) ==
    prev \o <<userMessage, assistantMessage>>

\* Mutant: sendMessage leaves the error of the turn before in place.
sendMessageKeepingError(content, pending) ==
    IF ~Accepts(content)
    THEN /\ lastOp' = [op |-> "sendMessage", content |-> content, accepted |-> FALSE]
         /\ UNCHANGED <<messages, isLoading, error, abortControllerRef,
                        isLoadingRef, calls, nextId, openBodies>>
    ELSE /\ Len(calls) < MaxCalls
         /\ LET c == Len(calls) + 1
                pendingAfterSetError == Enqueued(pending, error, Null)
                pendingAfterSetIsLoading ==
                    Enqueued(pendingAfterSetError, isLoading, TRUE)
                history == CapturedHistory(messages, ~pendingAfterSetIsLoading)
            IN  /\ error' = error
                /\ isLoading' = TRUE
                /\ isLoadingRef' = TRUE
                /\ messages' = AppendPair(messages, UserMessage(nextId, content),
                                          AssistantMessage(nextId + 1))
                /\ nextId' = nextId + 2
                /\ abortControllerRef' = c
                /\ calls' = Append(calls,
                      [pc |-> "fetch",
                       message |-> Str(content),
                       history |-> history,
                       userId |-> nextId,
                       assistantId |-> nextId + 1,
                       fullContent |-> <<>>,
                       nEvents |-> 0,
                       prior |-> messages,
                       folded |-> <<>>,
                       sawError |-> FALSE,
                       sawDone |-> FALSE,
                       cleared |-> FALSE])
                /\ lastOp' = [op |-> "sendMessage", content |-> content,
                              accepted |-> TRUE, call |-> c]
                /\ UNCHANGED openBodies

\* sendMessage up to the first await, lines 32-76.
sendMessage(content, pending) ==
    IF ~Accepts(content)
    THEN /\ lastOp' = [op |-> "sendMessage", content |-> content, accepted |-> FALSE]
         /\ UNCHANGED <<messages, isLoading, error, abortControllerRef,
                        isLoadingRef, calls, nextId, openBodies>>
    ELSE /\ Len(calls) < MaxCalls
         /\ LET c == Len(calls) + 1
                pendingAfterSetError == Enqueued(pending, error, Null)
                pendingAfterSetIsLoading ==
                    Enqueued(pendingAfterSetError, isLoading, TRUE)
                history == CapturedHistory(messages, ~pendingAfterSetIsLoading)
            IN  /\ error' = Null
                /\ isLoading' = TRUE
                /\ isLoadingRef' = TRUE
                /\ messages' = AppendPair(messages, UserMessage(nextId, content),
                                          AssistantMessage(nextId + 1))
                /\ nextId' = nextId + 2
                /\ abortControllerRef' = c
                /\ calls' = Append(calls,
                      [pc |-> "fetch",
                       message |-> Str(content),
                       history |-> history,
                       userId |-> nextId,
                       assistantId |-> nextId + 1,
                       fullContent |-> <<>>,
                       nEvents |-> 0,
                       prior |-> messages,
                       folded |-> <<>>,
                       sawError |-> FALSE,
                       sawDone |-> FALSE,
                       cleared |-> FALSE])
                /\ lastOp' = [op |-> "sendMessage", content |-> content,
                              accepted |-> TRUE, call |-> c]
                /\ UNCHANGED openBodies

(***************************************************************************)
(* streamChat, api.ts lines 144-164: the response arrives.                 *)
(***************************************************************************)
\* The response is ok and has a body: the generator goes on to read it.
responseOk(c) ==
    /\ calls[c].pc = "fetch"
    /\ calls' = [calls EXCEPT ![c].pc = "read"]
    /\ openBodies' = openBodies \cup {c}
    /\ lastOp' = [op |-> "response", call |-> c]
    /\ UNCHANGED <<messages, isLoading, error, abortControllerRef, isLoadingRef,
                   nextId>>

(***************************************************************************)
(* The body of the for-await loop for one event, lines 76-146.             *)
(***************************************************************************)
\* lines 127-130
ErrorMessageOf(ev) ==
    IF ev.code # "" /\ Truthy(ERROR_CODE_MESSAGES(ev.code))
    THEN ERROR_CODE_MESSAGES(ev.code)
    ELSE ev.message

\* Mutant: the token is put in front of the text accumulated so far.
AccumulateInFront(fullContent, token) == token \o fullContent

\* line 79: fullContent += event.data.token
Accumulate(fullContent, token) == fullContent \o token

\* Mutant: finalizing on done also drops the sources attached so far.
FinalizedDroppingSources(m) == [m EXCEPT !.isStreaming = FALSE, !.sources = NoSources]

\* lines 117-121: { ...m, isStreaming: false }
Finalized(m) == [m EXCEPT !.isStreaming = FALSE]

\* Mutant: a sources event appends its list to the sources attached so far.
FoldedMessagesMergingSources(msgs, call, ev) ==
    LET mine == {i \in 1..Len(msgs) : msgs[i].id = call.assistantId}
        setContent ==
            [i \in mine |->
                [msgs[i] EXCEPT
                    !.content = Str(Accumulate(call.fullContent, ev.token))]]
        setSources ==
            [i \in mine |->
                [msgs[i] EXCEPT !.sources =
                    [set |-> TRUE,
                     list |-> @.list \o parseSourcesFromAPI(ev.sources)]]]
        setChunks ==
            [i \in mine |->
                [msgs[i] EXCEPT !.chunks =
                    [set |-> TRUE, chunks |-> ev.data.chunks,
                     documentSet |-> ev.data.document_set,
                     strategy |-> ev.data.strategy]]]
        setDone == [i \in mine |-> Finalized(msgs[i])]
        setError ==
            [i \in mine |->
                [msgs[i] EXCEPT !.content = ErrorMessageOf(ev),
                                !.isStreaming = FALSE]]
    IN  CASE ev.type = "token" -> MapWhere(msgs, mine, setContent)
          [] ev.type = "sources" -> MapWhere(msgs, mine, setSources)
          [] ev.type = "chunks" -> MapWhere(msgs, mine, setChunks)
          [] ev.type = "done" -> MapWhere(msgs, mine, setDone)
          [] ev.type = "error" -> MapWhere(msgs, mine, setError)
          [] OTHER -> msgs

\* Mutant: a chunks event also drops the sources attached so far.
FoldedMessagesChunksDroppingSources(msgs, call, ev) ==
    LET mine == {i \in 1..Len(msgs) : msgs[i].id = call.assistantId}
        setContent ==
            [i \in mine |->
                [msgs[i] EXCEPT
                    !.content = Str(Accumulate(call.fullContent, ev.token))]]
        setSources ==
            [i \in mine |->
                [msgs[i] EXCEPT !.sources =
                    [set |-> TRUE, list |-> parseSourcesFromAPI(ev.sources)]]]
        setChunks ==
            [i \in mine |->
                [msgs[i] EXCEPT !.sources = NoSources, !.chunks =
                    [set |-> TRUE, chunks |-> ev.data.chunks,
                     documentSet |-> ev.data.document_set,
                     strategy |-> ev.data.strategy]]]
        setDone == [i \in mine |-> Finalized(msgs[i])]
        setError ==
            [i \in mine |->
                [msgs[i] EXCEPT !.content = ErrorMessageOf(ev),
                                !.isStreaming = FALSE]]
    IN  CASE ev.type = "token" -> MapWhere(msgs, mine, setContent)
          [] ev.type = "sources" -> MapWhere(msgs, mine, setSources)
          [] ev.type = "chunks" -> MapWhere(msgs, mine, setChunks)
          [] ev.type = "done" -> MapWhere(msgs, mine, setDone)
          [] ev.type = "error" -> MapWhere(msgs, mine, setError)
          [] OTHER -> msgs

\* lines 77-145: the switch on event.type.
FoldedMessages(msgs, call, ev) ==
    LET mine == {i \in 1..Len(msgs) : msgs[i].id = call.assistantId}
        setContent ==
            [i \in mine |->
                [msgs[i] EXCEPT
                    !.content = Str(Accumulate(call.fullContent, ev.token))]]
        setSources ==
            [i \in mine |->
                [msgs[i] EXCEPT !.sources =
                    [set |-> TRUE, list |-> parseSourcesFromAPI(ev.sources)]]]
        setChunks ==
            [i \in mine |->
                [msgs[i] EXCEPT !.chunks =
                    [set |-> TRUE, chunks |-> ev.data.chunks,
                     documentSet |-> ev.data.document_set,
                     strategy |-> ev.data.strategy]]]
        setDone == [i \in mine |-> Finalized(msgs[i])]
        setError ==
            [i \in mine |->
                [msgs[i] EXCEPT !.content = ErrorMessageOf(ev),
                                !.isStreaming = FALSE]]
    IN  CASE ev.type = "token" -> MapWhere(msgs, mine, setContent)
          [] ev.type = "sources" -> MapWhere(msgs, mine, setSources)
          [] ev.type = "chunks" -> MapWhere(msgs, mine, setChunks)
          [] ev.type = "done" -> MapWhere(msgs, mine, setDone)
          [] ev.type = "error" -> MapWhere(msgs, mine, setError)
          [] OTHER -> msgs

RECURSIVE EventsFolded(_)
EventsFolded(cs) ==
    IF cs = <<>> THEN 0 ELSE Head(cs).nEvents + EventsFolded(Tail(cs))

\* Mutant: an event with an unknown tag is taken for done.
foldEventFinalizingOnUnknown(c, ev) ==
    /\ calls[c].pc = "read"
    /\ EventsFolded(calls) < MaxEvents
    /\ messages' = FoldedMessages(messages, calls[c],
                                  IF ev.type = "ping" THEN [type |-> "done"] ELSE ev)
    /\ error' = IF ev.type = "error"
                THEN SetStateAction(error, ErrorMessageOf(ev))
                ELSE error
    /\ calls' = [calls EXCEPT
          ![c].nEvents = @ + 1,
          ![c].fullContent =
              IF ev.type = "token" THEN Accumulate(@, ev.token) ELSE @,
          ![c].folded = IF ev.type = "token" THEN Append(@, ev.token) ELSE @,
          ![c].sawError = @ \/ ev.type = "error",
          ![c].sawDone = @ \/ ev.type = "done"]
    /\ lastOp' = [op |-> "event", call |-> c, ev |-> ev]
    /\ UNCHANGED <<isLoading, abortControllerRef, isLoadingRef, nextId, openBodies>>

\* One iteration of the for-await loop, lines 76-146.
foldEvent(c, ev) ==
    /\ calls[c].pc = "read"
    /\ EventsFolded(calls) < MaxEvents
    /\ messages' = FoldedMessages(messages, calls[c], ev)
    /\ error' = IF ev.type = "error"
                THEN SetStateAction(error, ErrorMessageOf(ev))
                ELSE error
    /\ calls' = [calls EXCEPT
          ![c].nEvents = @ + 1,
          ![c].fullContent =
              IF ev.type = "token" THEN Accumulate(@, ev.token) ELSE @,
          ![c].folded = IF ev.type = "token" THEN Append(@, ev.token) ELSE @,
          ![c].sawError = @ \/ ev.type = "error",
          ![c].sawDone = @ \/ ev.type = "done"]
    /\ lastOp' = [op |-> "event", call |-> c, ev |-> ev]
    /\ UNCHANGED <<isLoading, abortControllerRef, isLoadingRef, nextId, openBodies>>

(***************************************************************************)
(* The end of the request: finally (lines 158-162), after the loop ended   *)
(* or after catch (lines 147-157).                                         *)
(***************************************************************************)
\* lines 148-149
CaughtMessage(err) ==
    IF err.isError THEN err.message ELSE UI_TEXT_networkError

\* Mutant: the catch block writes the text but leaves isStreaming set.
CatchMessagesKeepStreaming(msgs, errorMessage) ==
    LET streaming ==
            {i \in 1..Len(msgs) : msgs[i].role = "assistant" /\ msgs[i].isStreaming}
        finalize == [i \in streaming |-> [msgs[i] EXCEPT !.content = errorMessage]]
    IN  MapWhere(msgs, streaming, finalize)

\* lines 151-157
CatchMessages(msgs, errorMessage) ==
    LET streaming ==
            {i \in 1..Len(msgs) : msgs[i].role = "assistant" /\ msgs[i].isStreaming}
        finalize ==
            [i \in streaming |->
                [msgs[i] EXCEPT !.content = errorMessage, !.isStreaming = FALSE]]
    IN  MapWhere(msgs, streaming, finalize)

\* A call that returned: its locals are gone, only the count of the events
\* it folded is kept (for the bound MaxEvents).
Returned(call) ==
    [pc |-> "done", message |-> Str(<<>>), history |-> <<>>, userId |-> 0,
     assistantId |-> 0, fullContent |-> <<>>, nEvents |-> call.nEvents,
     prior |-> <<>>, folded |-> <<>>, sawError |-> FALSE, sawDone |-> FALSE,
     cleared |-> FALSE]

\* Mutants of the finally block: one that leaves the in-flight flag set,
\* one that leaves isLoading set.
FinallyKeepsFlag(c) ==
    /\ isLoading' = FALSE
    /\ isLoadingRef' = isLoadingRef
    /\ abortControllerRef' = 0
    /\ calls' = [calls EXCEPT ![c] = Returned(@)]
FinallyKeepsLoading(c) ==
    /\ isLoading' = isLoading
    /\ isLoadingRef' = FALSE
    /\ abortControllerRef' = 0
    /\ calls' = [calls EXCEPT ![c] = Returned(@)]

\* lines 159-161
Finally(c) ==
    /\ isLoading' = FALSE
    /\ isLoadingRef' = FALSE
    /\ abortControllerRef' = 0
    /\ calls' = [calls EXCEPT ![c] = Returned(@)]

\* reader.read() reports done: the generator returns and the loop ends.
streamEnds(c) ==
    /\ calls[c].pc = "read"
    /\ Finally(c)
    /\ openBodies' = openBodies \ {c}
    /\ lastOp' = [op |-> "end", call |-> c]
    /\ UNCHANGED <<messages, error, nextId>>

catchFinally(c, err) ==
    /\ error' = SetStateAction(error, CaughtMessage(err))
    /\ messages' = CatchMessages(messages, CaughtMessage(err))
    /\ Finally(c)
    /\ lastOp' = [op |-> "throw", call |-> c, err |-> err,
                  early |-> calls[c].pc = "fetch"]
    /\ UNCHANGED nextId

\* Mutant: the status and the body are checked only after events were read.
requestFailsWhileReading(c, err) ==
    /\ calls[c].pc \in {"fetch", "read"}
    /\ catchFinally(c, err)
    /\ UNCHANGED openBodies

\* api.ts lines 144-164: fetch rejects, the status is not ok, or the
\* response has no body; nothing was yielded yet.
requestFails(c, err) ==
    /\ calls[c].pc = "fetch"
    /\ catchFinally(c, err)
    /\ UNCHANGED openBodies

\* reader.read() rejects after the response came: the body stream failed.
streamThrows(c, err) ==
    /\ calls[c].pc = "read"
    /\ catchFinally(c, err)
    /\ openBodies' = openBodies \ {c}

\* What reading a property of the payload throws when the payload is null.
TypeErrorOf(ev) ==
    [isError |-> TRUE, message |-> Str(<<"Cannot read properties of null">>)]

\* The loop body throws on an event whose payload is null (useChat.ts lines
\* 79, 91, 101: a property of event.data is read).  for-await then abandons
\* the generator: its return() ends it at the yield of api.ts line 187,
\* where no finally block and no reader.cancel() is in scope, so the body
\* stays open; the AbortController of useChat.ts line 68 is not
\* given to fetch (api.ts lines 149-155) and is never aborted.
loopBodyThrows(c, ev) ==
    /\ calls[c].pc = "read"
    /\ EventsFolded(calls) < MaxEvents
    /\ catchFinally(c, TypeErrorOf(ev))
    /\ UNCHANGED openBodies

(***************************************************************************)
(* clearMessages (lines 165-168) and clearError (lines 170-172).           *)
(***************************************************************************)
\* Mutant: clearMessages empties the list but keeps the error.
clearMessagesKeepingError ==
    /\ messages' = <<>>
    /\ error' = error
    /\ calls' = [c \in DOMAIN calls |->
                    IF calls[c].pc = "done" THEN calls[c]
                    ELSE [calls[c] EXCEPT !.cleared = TRUE]]
    /\ lastOp' = [op |-> "clearMessages"]
    /\ UNCHANGED <<isLoading, abortControllerRef, isLoadingRef, nextId, openBodies>>

\* Mutant: clearMessages also clears the in-flight flag.
clearMessagesReleasingFlag ==
    /\ messages' = <<>>
    /\ error' = Null
    /\ isLoadingRef' = FALSE
    /\ calls' = [c \in DOMAIN calls |->
                    IF calls[c].pc = "done" THEN calls[c]
                    ELSE [calls[c] EXCEPT !.cleared = TRUE]]
    /\ lastOp' = [op |-> "clearMessages"]
    /\ UNCHANGED <<isLoading, abortControllerRef, nextId, openBodies>>

\* lines 165-168
clearMessages ==
    /\ messages' = <<>>
    /\ error' = Null
    /\ calls' = [c \in DOMAIN calls |->
                    IF calls[c].pc = "done" THEN calls[c]
                    ELSE [calls[c] EXCEPT !.cleared = TRUE]]
    /\ lastOp' = [op |-> "clearMessages"]
    /\ UNCHANGED <<isLoading, abortControllerRef, isLoadingRef, nextId, openBodies>>

\* Mutant: clearError also drops the oldest turn from the message list.
clearErrorDroppingFirstTurn ==
    /\ error' = Null
    /\ messages' = SubSeq(messages, 3, Len(messages))
    /\ lastOp' = [op |-> "clearError"]
    /\ UNCHANGED <<isLoading, abortControllerRef, isLoadingRef, calls, nextId,
                   openBodies>>

\* Mutant: clearError also empties the message list.
clearErrorClearingMessages ==
    /\ error' = Null
    /\ messages' = <<>>
    /\ lastOp' = [op |-> "clearError"]
    /\ UNCHANGED <<isLoading, abortControllerRef, isLoadingRef, calls, nextId,
                   openBodies>>

clearError ==
    /\ error' = Null
    /\ lastOp' = [op |-> "clearError"]
    /\ UNCHANGED <<messages, isLoading, abortControllerRef, isLoadingRef, calls,
                   nextId, openBodies>>

SendStep == \E content \in Contents : \E pending \in BOOLEAN : sendMessage(content, pending)
ResponseStep == \E c \in DOMAIN calls : responseOk(c)
EventStep == \E c \in DOMAIN calls : \E ev \in Events : foldEvent(c, ev)
EndStep == \E c \in DOMAIN calls : streamEnds(c)
TurnEventStep == \E c \in DOMAIN calls : \E ev \in TurnEvents : foldEvent(c, ev)
RequestFailStep ==
    \E c \in DOMAIN calls :
        \E err \in Thrown \cup {ChatRequestFailed, NoResponseBody} :
            requestFails(c, err)
StreamThrowStep == \E c \in DOMAIN calls : \E err \in Thrown : streamThrows(c, err)
AbandonStep ==
    \E c \in DOMAIN calls : \E ev \in NullPayloadEvents : loopBodyThrows(c, ev)

(***************************************************************************)
(* The frame decoder inside streamChat, api.ts lines 166-194               *)
(* (specification SpecDecoder).                                            *)
(*                                                                         *)
(* The response body is a sequence of bytes that reader.read() hands over  *)
(* in fragments of any length.  A byte is written as the character it      *)
(* encodes, except the two bytes C3 A9 that encode U+00E9.  One action is  *)
(* one iteration of the while loop: a read, the decoding of the fragment,  *)
(* the split into lines and the for loop over the complete lines.  The     *)
(* events yielded are collected in decoder.yielded.                        *)
(***************************************************************************)
MaxFrames == 2       \* frames in the stream the server sends

LF == "\n"
EventPrefix == <<"e", "v", "e", "n", "t", ":", " ">>
DataPrefix == <<"d", "a", "t", "a", ":", " ">>

\* The frames the server can send, as bytes.  "token" is event: t with the
\* payload 1, "accent" has the event name U+00E9, "badJson" has a payload
\* that JSON.parse rejects, "orphan" is a data line without an event line,
\* "double" has two data lines after its event line.
FrameBytes(f) ==
    CASE f = "token" -> EventPrefix \o <<"t", LF>> \o DataPrefix \o <<"1", LF, LF>>
      [] f = "accent" -> EventPrefix \o <<"C3", "A9", LF>> \o DataPrefix \o <<"2", LF, LF>>
      [] f = "badJson" -> EventPrefix \o <<"t", LF>> \o DataPrefix \o <<"{", LF, LF>>
      [] f = "orphan" -> DataPrefix \o <<"1", LF, LF>>
      [] f = "double" -> EventPrefix \o <<"t", LF>> \o DataPrefix \o <<"1", LF>>
                         \o DataPrefix \o <<"1", "2", LF, LF>>
Frames == {"token", "accent", "badJson", "orphan", "double"}

\* What may follow the last frame: nothing, or a frame whose data line has
\* no line end yet.
Tails == {<<>>, EventPrefix \o <<"t", LF>> \o DataPrefix \o <<"2">>}

RECURSIVE StreamBytes(_)
StreamBytes(frames) ==
    IF frames = <<>> THEN <<>>
    ELSE FrameBytes(Head(frames)) \o StreamBytes(Tail(frames))

FrameLists == UNION {[1..n -> Frames] : n \in 0..MaxFrames}

VARIABLE
    decoder   \* frames, tail: what the server sends (stream: its bytes);
              \* unread: the bytes not yet handed over by reader.read();
              \* held: the bytes of an incomplete character the TextDecoder
              \* keeps for the next fragment; buffer: line 167; yielded: the
              \* events yielded so far; pc: "idle", "reading" or "returned".
              \* History: processed, the lines the for loop went through so
              \* far; yieldedAt, the positions in processed of the lines
              \* that yielded an event; joined, the line of the last
              \* fragment that was completed from a non-empty buffer (in a
              \* sequence, empty when there was none); pending, the value
              \* of currentEvent when the last for loop ended

\* TextDecoder.decode(bytes, { stream: true }), line 173, for UTF-8: the
\* text decoded and the bytes held back.  A lead byte at the end of the
\* input is held back for the next call; C3 A9 decodes to U+00E9; a lead
\* byte without its continuation, or a continuation byte without its lead,
\* decodes to U+FFFD.
Utf8Decode(bytes) ==
    LET n == Len(bytes)
        held == IF n > 0 /\ bytes[n] = "C3" THEN <<"C3">> ELSE <<>>
        m == n - Len(held)
        decodedAt(i) ==
            CASE bytes[i] = "C3" ->
                    IF i < m /\ bytes[i + 1] = "A9" THEN "U+00E9" ELSE "U+FFFD"
              [] bytes[i] = "A9" ->
                    IF i > 1 /\ bytes[i - 1] = "C3" THEN "" ELSE "U+FFFD"
              [] OTHER -> bytes[i]
    IN  [text |-> SelectSeq([i \in 1..m |-> decodedAt(i)], LAMBDA ch : ch # ""),
         held |-> held]

\* buffer.split("\n"), line 176: at least one segment, the last one is what
\* follows the last line end.
RECURSIVE Split(_)
Split(text) ==
    IF \A i \in 1..Len(text) : text[i] # LF THEN <<text>>
    ELSE LET i == CHOOSE k \in 1..Len(text) :
                      text[k] = LF /\ \A j \in 1..(k - 1) : text[j] # LF
         IN  <<SubSeq(text, 1, i - 1)>> \o Split(SubSeq(text, i + 1, Len(text)))

\* line.startsWith(prefix) and line.slice(n)
StartsWith(line, prefix) ==
    Len(line) >= Len(prefix) /\ SubSeq(line, 1, Len(prefix)) = prefix
Slice(line, n) == SubSeq(line, n + 1, Len(line))

\* JSON.parse, line 186, on the payloads of the model (digits, spaces and
\* an opening brace): a run of digits, with spaces around it allowed, is a
\* number; every other text is rejected.
Digits == {"1", "2"}
JSONparse(text) ==
    LET t == Trim(text)
    IN  IF t # <<>> /\ \A i \in 1..Len(t) : t[i] \in Digits
        THEN [ok |-> TRUE, value |-> [t |-> "number", v |-> t]]
        ELSE [ok |-> FALSE, value |-> Undefined]

\* Mutant: a data line that consumes the event name leaves it pending.
RECURSIVE LinesFoldedKeepingName(_, _, _)
LinesFoldedKeepingName(lines, currentEvent, out) ==
    IF lines = <<>> THEN out
    ELSE LET line == Head(lines)
         IN  IF StartsWith(line, EventPrefix)
             THEN LinesFoldedKeepingName(Tail(lines), Str(Trim(Slice(line, 7))), out)
             ELSE IF StartsWith(line, DataPrefix) /\ Truthy(currentEvent)
             THEN LET parsed == JSONparse(Slice(line, 6))
                  IN  LinesFoldedKeepingName(Tail(lines), currentEvent,
                          IF parsed.ok
                          THEN Append(out, [type |-> currentEvent.v,
                                            data |-> parsed.value,
                                            left |-> Len(lines)])
                          ELSE out)
             ELSE LinesFoldedKeepingName(Tail(lines), currentEvent, out)

\* lines 179-193: currentEvent and the for loop over the complete lines of one fragment,
\* from the pending event name currentEvent; the events it yields are
\* appended to out, each with the number of lines that were left when it
\* was yielded (its own line included).
RECURSIVE LinesFolded(_, _, _)
LinesFolded(lines, currentEvent, out) ==
    IF lines = <<>> THEN out
    ELSE LET line == Head(lines)
         IN  IF StartsWith(line, EventPrefix)
             THEN LinesFolded(Tail(lines), Str(Trim(Slice(line, 7))), out)
             ELSE IF StartsWith(line, DataPrefix) /\ Truthy(currentEvent)
             THEN LET parsed == JSONparse(Slice(line, 6))
                  IN  LinesFolded(Tail(lines), Null,
                          IF parsed.ok
                          THEN Append(out, [type |-> currentEvent.v,
                                            data |-> parsed.value,
                                            left |-> Len(lines)])
                          ELSE out)
             ELSE LinesFolded(Tail(lines), currentEvent, out)

\* The for loop of lines 179-193 over lines, with what it leaves behind:
\* the events yielded, the positions in lines of the lines that yielded
\* one, and the value of currentEvent after the last line: the name that a
\* data line put after the last line is yielded with (it is the entry of
\* the run with left = 1).
LoopOver(lines) ==
    LET run == LinesFolded(Append(lines, DataPrefix \o <<"1">>), Null, <<>>)
        n == Len(run)
        probed == n > 0 /\ run[n].left = 1
        m == IF probed THEN n - 1 ELSE n
    IN  [events |-> [i \in 1..m |-> [type |-> run[i].type, data |-> run[i].data]],
         yieldedAt |-> {Len(lines) + 2 - run[i].left : i \in 1..m},
         pending |-> IF probed THEN Str(run[n].type) ELSE Null]

\* Mutants of the split: one forgets the buffer of the fragment before, one
\* treats the segment after the last line end as a complete line.
ChunkDecodedDroppingBuffer(held, buffer, value) ==
    LET decoded == Utf8Decode(held \o value)
        segments == Split(decoded.text)
        lines == SubSeq(segments, 1, Len(segments) - 1)
    IN  [held |-> decoded.held,
         buffer |-> segments[Len(segments)],
         lines |-> lines,
         joined |-> <<>>,
         loop |-> LoopOver(lines)]
ChunkDecodedFlushingLast(held, buffer, value) ==
    LET decoded == Utf8Decode(held \o value)
        segments == Split(buffer \o decoded.text)
        lines == segments
    IN  [held |-> decoded.held,
         buffer |-> <<>>,
         lines |-> lines,
         joined |-> <<>>,
         loop |-> LoopOver(lines)]

\* lines 170-193 for one fragment: the new held bytes, the new buffer, the
\* complete lines and what the for loop over them does.  currentEvent is
\* declared inside the while loop (line 179), so every fragment starts
\* without a pending event name.
ChunkDecoded(held, buffer, value) ==
    LET decoded == Utf8Decode(held \o value)
        segments == Split(buffer \o decoded.text)
        lines == SubSeq(segments, 1, Len(segments) - 1)
    IN  [held |-> decoded.held,
         buffer |-> segments[Len(segments)],
         lines |-> lines,
         joined |-> IF /\ buffer # <<>>
                       /\ decoded.text # <<>>
                       /\ decoded.text[1] # LF
                       /\ lines # <<>>
                    THEN <<lines[1]>> ELSE <<>>,
         loop |-> LoopOver(lines)]

DecoderIdle ==
    decoder = [frames |-> <<>>, tail |-> <<>>, stream |-> <<>>, unread |-> <<>>,
               held |-> <<>>, buffer |-> <<>>, yielded |-> <<>>,
               processed |-> <<>>, yieldedAt |-> {}, joined |-> <<>>,
               pending |-> Null, pc |-> "idle"]

\* streamChat after getReader(), lines 161-167.
DecoderInit ==
    \E frames \in FrameLists : \E tail \in Tails :
        decoder = [frames |-> frames, tail |-> tail,
                   stream |-> StreamBytes(frames) \o tail,
                   unread |-> StreamBytes(frames) \o tail,
                   held |-> <<>>, buffer |-> <<>>, yielded |-> <<>>,
                   processed |-> <<>>, yieldedAt |-> {}, joined |-> <<>>,
                   pending |-> Null, pc |-> "reading"]

\* reader.read() hands over the next n bytes.
readChunk(n) ==
    /\ decoder.pc = "reading"
    /\ n \in 1..Len(decoder.unread)
    /\ LET value == SubSeq(decoder.unread, 1, n)
           step == ChunkDecoded(decoder.held, decoder.buffer, value)
       IN  decoder' = [decoder EXCEPT
               !.unread = SubSeq(decoder.unread, n + 1, Len(decoder.unread)),
               !.held = step.held,
               !.buffer = step.buffer,
               !.yielded = @ \o step.loop.events,
               !.processed = @ \o step.lines,
               !.yieldedAt = @ \cup {Len(decoder.processed) + i :
                                        i \in step.loop.yieldedAt},
               !.joined = step.joined,
               !.pending = step.loop.pending]

\* reader.read() reports done (line 170): the generator returns; what is
\* left in buffer is not looked at again.
readDone ==
    /\ decoder.pc = "reading"
    /\ decoder.unread = <<>>
    /\ decoder' = [decoder EXCEPT !.pc = "returned"]

ReadStep == \E n \in 1..(Len(decoder.unread)) : readChunk(n)

(***************************************************************************)
(* The field mapper parseSourcesFromAPI, api.ts lines 200-214              *)
(* (specification SpecMapper): the function is applied to an input drawn   *)
(* from the wire lists, or to the wire form of a list of Sources.          *)
(***************************************************************************)
MaxSources == 2      \* elements of a list given to the mapper

Filenames == {"a.txt", "b.md"}
LineNumbers == {1, 10}
Previews == {"preview"}

\* APISource (wire) and Source (internal), src/unnamed/part_002.
APISources ==
    [filename : Filenames, start_line : LineNumbers, end_line : LineNumbers,
     content_preview : Previews]
Sources ==
    [filename : Filenames, startLine : LineNumbers, endLine : LineNumbers,
     contentPreview : Previews]

APISourceLists == UNION {[1..n -> APISources] : n \in 0..MaxSources}
SourceLists == UNION {[1..n -> Sources] : n \in 0..MaxSources}

\* The renaming in the other direction, from the internal names to the wire
\* names.  api.ts has no such function; it is defined here to state the
\* round-trip law of the mapper.
toWire(sources) ==
    [i \in 1..Len(sources) |->
        [filename |-> sources[i].filename,
         start_line |-> sources[i].startLine,
         end_line |-> sources[i].endLine,
         content_preview |-> sources[i].contentPreview]]

VARIABLE
    mapper    \* kind: "wire" (input is a wire list) or "source" (input is a
              \* list of Sources, mapped from its wire form); output: the
              \* result of parseSourcesFromAPI; pc: "idle", "called",
              \* "returned"

MapperIdle ==
    mapper = [kind |-> "wire", input |-> <<>>, output |-> <<>>, pc |-> "idle"]

MapperInit ==
    \/ \E apiSources \in APISourceLists :
          mapper = [kind |-> "wire", input |-> apiSources, output |-> <<>>,
                    pc |-> "called"]
    \/ \E sources \in SourceLists :
          mapper = [kind |-> "source", input |-> sources, output |-> <<>>,
                    pc |-> "called"]

\* parseSourcesFromAPI(apiSources) returns.
mapWire ==
    /\ mapper.pc = "called"
    /\ mapper.kind = "wire"
    /\ mapper' = [mapper EXCEPT !.output = parseSourcesFromAPI(mapper.input),
                                !.pc = "returned"]

\* parseSourcesFromAPI(toWire(sources)) returns.
mapWired ==
    /\ mapper.pc = "called"
    /\ mapper.kind = "source"
    /\ mapper' = [mapper EXCEPT
                     !.output = parseSourcesFromAPI(toWire(mapper.input)),
                     !.pc = "returned"]

(***************************************************************************)
(* useServerStatus, src/frontend/hooks/useServerStatus.ts lines 9-51       *)
(* (specification SpecStatus).  One action is one synchronous stretch: the *)
(* effect that starts a check, the continuation of checkServerHealth after *)
(* checkHealth settled, a timer callback, a call of retry.                 *)
(***************************************************************************)
MaxChecks == 3       \* value retryCount can reach per behaviour

\* What GET /health can answer (HealthResponse, with a field missing as
\* undefined), and the JSON value null.
Flags == {True, False, Undefined}
HealthResponses ==
    [t : {"health"}, model_loaded : Flags, vectorstore_ready : Flags] \cup {Null}

VARIABLE
    server    \* status, healthData, retryCount: the three useState cells;
              \* effectDue: the effect of lines 35-37 has to run (after the
              \* mount or after retryCount changed); checks: the calls of
              \* checkServerHealth that await checkHealth(); timers: the
              \* pending setTimeout callbacks, by delay; completed: the
              \* checks that have completed; last: the step taken last;
              \* pc: "idle" or "mounted"; healthy: the backend has finished
              \* loading, every answer of GET /health from now on has both
              \* flags true (used by SpecStatusLive only)

NoTimers == [d \in {3000, 5000} |-> 0]

ServerIdle ==
    server = [status |-> "checking", healthData |-> Null, retryCount |-> 0,
              effectDue |-> FALSE, checks |-> 0, timers |-> NoTimers,
              completed |-> 0, last |-> [op |-> "none"], pc |-> "idle",
              healthy |-> FALSE]

\* After the first render: the state of lines 10-12, the effect not yet run.
ServerInit ==
    server = [status |-> "checking", healthData |-> Null, retryCount |-> 0,
              effectDue |-> TRUE, checks |-> 0, timers |-> NoTimers,
              completed |-> 0, last |-> [op |-> "mount"], pc |-> "mounted",
              healthy |-> FALSE]

\* lines 35-37: the effect calls checkServerHealth, which runs up to the
\* await of checkHealth().
runEffect ==
    /\ server.pc = "mounted"
    /\ server.effectDue
    /\ server' = [server EXCEPT !.effectDue = FALSE, !.checks = @ + 1,
                                !.last = [op |-> "effect"]]

\* Mutant: one of the two flags is enough for "ready".
IsReadyEither(health) ==
    Truthy(health.model_loaded) \/ Truthy(health.vectorstore_ready)

\* line 19: health.model_loaded && health.vectorstore_ready
IsReady(health) ==
    Truthy(health.model_loaded) /\ Truthy(health.vectorstore_ready)

\* Mutant: the catch block sets "starting" and schedules no retry.
CaughtWithoutTimer(s) == [s EXCEPT !.status = "starting"]

\* lines 27-31, the catch block: "starting", and a retry in 5 seconds.
Caught(s) ==
    [s EXCEPT !.status = "starting", !.timers[5000] = @ + 1]

\* checkHealth() resolved with health: lines 17-26.  Reading a flag of null
\* throws inside the try block, after setHealthData.
healthResolves(health) ==
    /\ server.pc = "mounted"
    /\ server.checks > 0
    /\ LET settled == [server EXCEPT !.checks = @ - 1, !.completed = @ + 1,
                                     !.healthData = health,
                                     !.last = [op |-> "resolved", health |-> health]]
       IN  server' =
               IF health = Null THEN Caught(settled)
               ELSE IF IsReady(health) THEN [settled EXCEPT !.status = "ready"]
               ELSE [settled EXCEPT !.status = "starting", !.timers[3000] = @ + 1]

\* checkHealth() rejected (fetch failed, status not ok, body not JSON):
\* lines 27-31.
healthRejects ==
    /\ server.pc = "mounted"
    /\ server.checks > 0
    /\ server' = Caught([server EXCEPT !.checks = @ - 1, !.completed = @ + 1,
                                       !.last = [op |-> "rejected"]])

\* lines 25 and 31: a timer callback runs setRetryCount((c) => c + 1).
timerFires(d) ==
    /\ server.pc = "mounted"
    /\ server.timers[d] > 0
    /\ (server.retryCount < MaxChecks \/ server.healthy)
    /\ server' = [server EXCEPT !.timers[d] = @ - 1, !.retryCount = @ + 1,
                                !.effectDue = TRUE,
                                !.last = [op |-> "timer", delay |-> d]]

\* Mutant: retry resets the status but does not change retryCount, so the
\* effect does not run again.
retryWithoutCheck ==
    /\ server.pc = "mounted"
    /\ server.retryCount < MaxChecks
    /\ server.status # "checking"
    /\ server' = [server EXCEPT !.status = "checking", !.last = [op |-> "retry"]]

\* lines 39-42
retry ==
    /\ server.pc = "mounted"
    /\ server.retryCount < MaxChecks
    /\ server' = [server EXCEPT !.status = "checking", !.retryCount = @ + 1,
                                !.effectDue = TRUE, !.last = [op |-> "retry"]]

HealthStep == \E health \in HealthResponses : healthResolves(health)
TimerStep == \E d \in {3000, 5000} : timerFires(d)

\* The backend behind GET /health (api.ts lines 28-34) for the polling
\* claim: at some moment it has loaded its model and its vector store, and
\* from then on every check is answered, with both flags true.
serverTurnsHealthy ==
    /\ server.pc = "mounted"
    /\ ~server.healthy
    /\ server' = [server EXCEPT !.healthy = TRUE, !.last = [op |-> "healthy"]]
AnswerStep ==
    \E health \in HealthResponses :
        /\ server.healthy => (health # Null /\ IsReady(health))
        /\ healthResolves(health)
FailStep == ~server.healthy /\ healthRejects

(***************************************************************************)
(* useDocuments, src/frontend/hooks/useServerStatus.ts lines 65-166        *)
(* (specification SpecDocuments).  One action is one synchronous stretch:  *)
(* a call of an operation up to its first await, or the continuation after *)
(* an awaited request settled, up to the next await or the return.         *)
(***************************************************************************)
MaxOps == 2          \* operations that issue a request, after the mount

\* constants.ts lines 29-31, 102
UI_TEXT_uploadError == Str(<<"uploadError">>)
UI_TEXT_invalidFileType == Str(<<"invalidFileType">>)
UI_TEXT_fileTooLarge == Str(<<"fileTooLarge">>)
maxFileSize == 1048576

\* UPLOAD_CONFIG.allowedTypes, constants.ts line 103
allowedTypes == {<<".", "t", "x", "t">>, <<".", "m", "d">>}

\* The files offered to upload: name and size.
FileNames ==
    {<<"a", ".", "t", "x", "t">>, <<"b", ".", "m", "d">>, <<"c", ".", "p", "d", "f">>}
FileSizes == {maxFileSize, maxFileSize + 1}
Files == [name : FileNames, size : FileSizes]

\* What fetchDocuments can resolve to.
Document1 ==
    [id |-> "1", filename |-> "a.txt", type |-> "uploaded", status |-> "ready",
     lineCount |-> 1]
DocumentLists == {<<>>, <<Document1>>}

\* name.endsWith(suffix)
EndsWith(name, suffix) ==
    /\ Len(name) >= Len(suffix)
    /\ SubSeq(name, Len(name) - Len(suffix) + 1, Len(name)) = suffix

VARIABLE
    docs      \* documents, isLoading, isUploading, isRebuilding, error: the
              \* useState cells of lines 66-70; ops: the calls that issued a
              \* request, with kind ("load", "upload", "remove", "rebuild")
              \* and pc ("call": awaits its own request, "load": awaits
              \* fetchDocuments inside loadDocuments, "done"); requests:
              \* the requests issued so far; last: the step taken last;
              \* pc: "idle" or "mounted"

DocsIdle ==
    docs = [documents |-> <<>>, isLoading |-> FALSE, isUploading |-> FALSE,
            isRebuilding |-> FALSE, error |-> Null, ops |-> <<>>,
            requests |-> 0, last |-> [op |-> "none"], pc |-> "idle"]

\* After the first render and the effect of lines 144-146, which calls
\* loadDocuments: lines 73-76.
DocsInit ==
    docs = [documents |-> <<>>, isLoading |-> TRUE, isUploading |-> FALSE,
            isRebuilding |-> FALSE, error |-> Null,
            ops |-> <<[kind |-> "load", pc |-> "load"]>>,
            requests |-> 1, last |-> [op |-> "mount"], pc |-> "mounted"]

CanStart == docs.pc = "mounted" /\ Len(docs.ops) < MaxOps + 1

\* loadDocuments, lines 73-76, called from outside the hook.
loadDocuments ==
    /\ CanStart
    /\ docs' = [docs EXCEPT !.isLoading = TRUE, !.error = Null,
                            !.ops = Append(@, [kind |-> "load", pc |-> "load"]),
                            !.requests = @ + 1,
                            !.last = [op |-> "loadDocuments"]]

\* lines 87-95: the validation message, or null when the file passes.
ValidationError(file) ==
    IF ~EndsWith(file.name, <<".", "t", "x", "t">>) THEN UI_TEXT_invalidFileType
    ELSE IF file.size > maxFileSize THEN UI_TEXT_fileTooLarge
    ELSE Null

\* upload(file), lines 85-101, up to the await of uploadDocument.
upload(file) ==
    /\ docs.pc = "mounted"
    /\ IF ValidationError(file) # Null
       THEN docs' = [docs EXCEPT
                !.error = ValidationError(file),
                !.last = [op |-> "upload", file |-> file, returned |-> "false"]]
       ELSE /\ CanStart
            /\ docs' = [docs EXCEPT
                   !.isUploading = TRUE, !.error = Null,
                   !.ops = Append(@, [kind |-> "upload", pc |-> "call"]),
                   !.requests = @ + 1,
                   !.last = [op |-> "upload", file |-> file, returned |-> "pending"]]

\* remove(docId), lines 112-115, up to the await of deleteDocument.
remove ==
    /\ CanStart
    /\ docs' = [docs EXCEPT !.error = Null,
                            !.ops = Append(@, [kind |-> "remove", pc |-> "call"]),
                            !.requests = @ + 1,
                            !.last = [op |-> "remove"]]

\* rebuild(), lines 124-128, up to the await of rebuildVectorstore.
rebuild ==
    /\ CanStart
    /\ docs' = [docs EXCEPT !.isRebuilding = TRUE, !.error = Null,
                            !.ops = Append(@, [kind |-> "rebuild", pc |-> "call"]),
                            !.requests = @ + 1,
                            !.last = [op |-> "rebuild"]]

\* The text the catch block of each operation falls back to (lines 79,
\* 105, 119, 132).
FallbackMessage(kind) ==
    CASE kind = "load" -> UI_TEXT_networkError
      [] kind = "upload" -> UI_TEXT_uploadError
      [] OTHER -> UI_TEXT_serverError

CaughtBy(kind, err) == IF err.isError THEN err.message ELSE FallbackMessage(kind)

\* Mutant: the finally blocks leave the flags as they are.
FinallyOfKeepingFlags(d, kind) == d

\* The finally block of an operation (lines 107-109, 134-136): upload and
\* rebuild clear their flag, the others have none.
FinallyOf(d, kind) ==
    CASE kind = "upload" -> [d EXCEPT !.isUploading = FALSE]
      [] kind = "rebuild" -> [d EXCEPT !.isRebuilding = FALSE]
      [] OTHER -> d

\* The request of upload, remove or rebuild succeeded: the operation calls
\* loadDocuments (lines 102, 116, 129) and awaits it.
callResolves(o) ==
    /\ docs.ops[o].pc = "call"
    /\ docs' = [docs EXCEPT !.isLoading = TRUE, !.error = Null,
                            !.ops[o].pc = "load",
                            !.requests = @ + 1,
                            !.last = [op |-> "resolved", call |-> o]]

\* The request of upload, remove or rebuild failed: catch and finally.
callRejects(o, err) ==
    /\ docs.ops[o].pc = "call"
    /\ docs' = FinallyOf(
           [docs EXCEPT !.error = CaughtBy(docs.ops[o].kind, err),
                        !.ops[o].pc = "done",
                        !.last = [op |-> "returns", call |-> o,
                                  kind |-> docs.ops[o].kind, ok |-> FALSE]],
           docs.ops[o].kind)

\* fetchDocuments resolved inside loadDocuments (lines 77, 81); an
\* operation that awaited loadDocuments then returns through its finally.
loadResolves(o, list) ==
    /\ docs.ops[o].pc = "load"
    /\ docs' = FinallyOf(
           [docs EXCEPT !.documents = list, !.isLoading = FALSE,
                        !.ops[o].pc = "done",
                        !.last = [op |-> "returns", call |-> o,
                                  kind |-> docs.ops[o].kind, ok |-> TRUE]],
           docs.ops[o].kind)

\* fetchDocuments failed inside loadDocuments (lines 78-81), which catches
\* the failure itself; the operation that awaited it returns normally.
loadRejects(o, err) ==
    /\ docs.ops[o].pc = "load"
    /\ docs' = FinallyOf(
           [docs EXCEPT !.error = CaughtBy("load", err), !.isLoading = FALSE,
                        !.ops[o].pc = "done",
                        !.last = [op |-> "returns", call |-> o,
                                  kind |-> docs.ops[o].kind, ok |-> TRUE]],
           docs.ops[o].kind)

\* clearError of useDocuments, lines 139-141.
clearDocumentsError ==
    /\ docs.pc = "mounted"
    /\ docs.error # Null
    /\ docs' = [docs EXCEPT !.error = Null, !.last = [op |-> "clearError"]]

UploadStep == \E file \in Files : upload(file)
CallResolvesStep == \E o \in DOMAIN docs.ops : callResolves(o)
CallRejectsStep == \E o \in DOMAIN docs.ops : \E err \in Thrown : callRejects(o, err)
LoadResolvesStep ==
    \E o \in DOMAIN docs.ops : \E list \in DocumentLists : loadResolves(o, list)
LoadRejectsStep == \E o \in DOMAIN docs.ops : \E err \in Thrown : loadRejects(o, err)

(***************************************************************************)
(* DocumentPreviewModal (components/DocumentPreviewModal.tsx): the content *)
(* of the previewed document is fetched by an effect on the doc prop.      *)
(***************************************************************************)
MaxFetches == 3      \* content fetches started

\* constants.ts line 85
UI_TEXT_documentLoadError == Str(<<"documentLoadError">>)

Document2 ==
    [id |-> "2", filename |-> "b.txt", type |-> "sample", status |-> "ready",
     lineCount |-> 2]
\* The documents of the list, whose preview button calls setPreviewDoc.
PreviewDocs == {Document1, Document2}

\* api.ts lines 97-114: the content the backend returns for a document id.
ContentOfDocument(id) == Str(<<"content of ", id>>)

VARIABLE
    preview   \* doc: the doc prop (previewDoc of the drawer); content,
              \* isLoading, error: the state of the modal; pending: the
              \* fetchDocumentContent calls in flight, per document id;
              \* fetches: the calls started; last: the step taken last

NoFetches == [id \in {d.id : d \in PreviewDocs} |-> 0]

\* lines 18-20, with the drawer's useState(null)
PreviewInit ==
    preview = [doc |-> Null, content |-> Null, isLoading |-> FALSE,
               error |-> Null, pending |-> NoFetches, fetches |-> 0,
               last |-> [op |-> "none"]]

\* The drawer sets previewDoc (onPreview, onClose) and the effect of lines
\* 22-45 runs on the new prop: null resets content and error and returns,
\* a document starts loadContent up to its await.
setPreviewDoc(d) ==
    /\ d # preview.doc
    /\ IF d = Null
       THEN preview' = [preview EXCEPT !.doc = Null, !.content = Null,
                                       !.error = Null,
                                       !.last = [op |-> "close"]]
       ELSE /\ preview.fetches < MaxFetches
            /\ preview' = [preview EXCEPT !.doc = d, !.isLoading = TRUE,
                                          !.error = Null,
                                          !.pending[d.id] = @ + 1,
                                          !.fetches = @ + 1,
                                          !.last = [op |-> "open", id |-> d.id]]

\* lines 33-34 and 40: a fetch resolves, whatever the doc prop is now.
fetchResolves(id) ==
    /\ preview.pending[id] > 0
    /\ preview' = [preview EXCEPT !.content = ContentOfDocument(id),
                                  !.isLoading = FALSE,
                                  !.pending[id] = @ - 1,
                                  !.last = [op |-> "resolved", id |-> id]]

\* lines 35-40: a fetch rejects.
fetchRejects(id, err) ==
    /\ preview.pending[id] > 0
    /\ preview' = [preview EXCEPT
                       !.error = IF err.isError THEN err.message
                                 ELSE UI_TEXT_documentLoadError,
                       !.isLoading = FALSE,
                       !.pending[id] = @ - 1,
                       !.last = [op |-> "rejected", id |-> id]]

\* What the modal renders (line 64 and lines 137-171).
Displayed(p) ==
    CASE p.doc = Null -> [kind |-> "nothing", text |-> Null]
      [] p.isLoading -> [kind |-> "spinner", text |-> Null]
      [] p.error # Null /\ p.error.v # <<>> -> [kind |-> "error", text |-> p.error]
      [] p.content # Null /\ p.content.v # <<>> -> [kind |-> "content", text |-> p.content]
      [] OTHER -> [kind |-> "nothing", text |-> Null]

SelectStep == \E d \in PreviewDocs \cup {Null} : setPreviewDoc(d)
FetchResolvesStep == \E id \in DOMAIN preview.pending : fetchResolves(id)
FetchRejectsStep ==
    \E id \in DOMAIN preview.pending : \E err \in Thrown : fetchRejects(id, err)

(***************************************************************************)
(* The specifications.  Each one runs one component from its initial state *)
(* and leaves the other components idle.                                   *)
(***************************************************************************)
allVars == <<vars, decoder, mapper, server, docs, preview>>

HookInit == Init /\ DecoderIdle /\ MapperIdle /\ ServerIdle /\ DocsIdle /\ PreviewInit
Next ==
    \/ SendStep /\ UNCHANGED <<decoder, mapper, server, docs, preview>>
    \/ ResponseStep /\ UNCHANGED <<decoder, mapper, server, docs, preview>>
    \/ EventStep /\ UNCHANGED <<decoder, mapper, server, docs, preview>>
    \/ EndStep /\ UNCHANGED <<decoder, mapper, server, docs, preview>>
    \/ RequestFailStep /\ UNCHANGED <<decoder, mapper, server, docs, preview>>
    \/ StreamThrowStep /\ UNCHANGED <<decoder, mapper, server, docs, preview>>
    \/ AbandonStep /\ UNCHANGED <<decoder, mapper, server, docs, preview>>
    \/ clearMessages /\ UNCHANGED <<decoder, mapper, server, docs, preview>>
    \/ clearError /\ UNCHANGED <<decoder, mapper, server, docs, preview>>
Spec == HookInit /\ [][Next]_allVars

\* The conversation hook on the path without failures, with streams that
\* carry several sources events.
TurnNext ==
    \/ SendStep /\ UNCHANGED <<decoder, mapper, server, docs, preview>>
    \/ ResponseStep /\ UNCHANGED <<decoder, mapper, server, docs, preview>>
    \/ TurnEventStep /\ UNCHANGED <<decoder, mapper, server, docs, preview>>
    \/ EndStep /\ UNCHANGED <<decoder, mapper, server, docs, preview>>
SpecTurn == HookInit /\ [][TurnNext]_allVars

StreamInit == Init /\ DecoderInit /\ MapperIdle /\ ServerIdle /\ DocsIdle /\ PreviewInit
StreamNext ==
    \/ ReadStep /\ UNCHANGED <<vars, mapper, server, docs, preview>>
    \/ readDone /\ UNCHANGED <<vars, mapper, server, docs, preview>>
SpecDecoder == StreamInit /\ [][StreamNext]_allVars

SourcesInit == Init /\ DecoderIdle /\ MapperInit /\ ServerIdle /\ DocsIdle /\ PreviewInit
SourcesNext ==
    \/ mapWire /\ UNCHANGED <<vars, decoder, server, docs, preview>>
    \/ mapWired /\ UNCHANGED <<vars, decoder, server, docs, preview>>
SpecMapper == SourcesInit /\ [][SourcesNext]_allVars

StatusInit == Init /\ DecoderIdle /\ MapperIdle /\ ServerInit /\ DocsIdle /\ PreviewInit
StatusNext ==
    \/ runEffect /\ UNCHANGED <<vars, decoder, mapper, docs, preview>>
    \/ HealthStep /\ UNCHANGED <<vars, decoder, mapper, docs, preview>>
    \/ healthRejects /\ UNCHANGED <<vars, decoder, mapper, docs, preview>>
    \/ TimerStep /\ UNCHANGED <<vars, decoder, mapper, docs, preview>>
    \/ retry /\ UNCHANGED <<vars, decoder, mapper, docs, preview>>
SpecStatus == StatusInit /\ [][StatusNext]_allVars

\* useServerStatus with a backend that becomes healthy, under the fairness
\* the run time gives: an effect that is due runs after the render, a
\* pending timer fires, and a check is answered or fails.
PollingNext ==
    \/ runEffect /\ UNCHANGED <<vars, decoder, mapper, docs, preview>>
    \/ AnswerStep /\ UNCHANGED <<vars, decoder, mapper, docs, preview>>
    \/ FailStep /\ UNCHANGED <<vars, decoder, mapper, docs, preview>>
    \/ TimerStep /\ UNCHANGED <<vars, decoder, mapper, docs, preview>>
    \/ retry /\ UNCHANGED <<vars, decoder, mapper, docs, preview>>
    \/ serverTurnsHealthy /\ UNCHANGED <<vars, decoder, mapper, docs, preview>>
PollingFairness ==
    /\ WF_allVars(runEffect /\ UNCHANGED <<vars, decoder, mapper, docs, preview>>)
    /\ WF_allVars((AnswerStep \/ FailStep) /\ UNCHANGED <<vars, decoder, mapper, docs, preview>>)
    /\ WF_allVars(TimerStep /\ UNCHANGED <<vars, decoder, mapper, docs, preview>>)
SpecStatusLive == StatusInit /\ [][PollingNext]_allVars /\ PollingFairness

DocumentsInit == Init /\ DecoderIdle /\ MapperIdle /\ ServerIdle /\ DocsInit /\ PreviewInit
DocumentsNext ==
    \/ loadDocuments /\ UNCHANGED <<vars, decoder, mapper, server, preview>>
    \/ UploadStep /\ UNCHANGED <<vars, decoder, mapper, server, preview>>
    \/ remove /\ UNCHANGED <<vars, decoder, mapper, server, preview>>
    \/ rebuild /\ UNCHANGED <<vars, decoder, mapper, server, preview>>
    \/ CallResolvesStep /\ UNCHANGED <<vars, decoder, mapper, server, preview>>
    \/ CallRejectsStep /\ UNCHANGED <<vars, decoder, mapper, server, preview>>
    \/ LoadResolvesStep /\ UNCHANGED <<vars, decoder, mapper, server, preview>>
    \/ LoadRejectsStep /\ UNCHANGED <<vars, decoder, mapper, server, preview>>
    \/ clearDocumentsError /\ UNCHANGED <<vars, decoder, mapper, server, preview>>
SpecDocuments == DocumentsInit /\ [][DocumentsNext]_allVars

PreviewModalInit == Init /\ DecoderIdle /\ MapperIdle /\ ServerIdle /\ DocsIdle /\ PreviewInit
PreviewNext ==
    \/ SelectStep /\ UNCHANGED <<vars, decoder, mapper, server, docs>>
    \/ FetchResolvesStep /\ UNCHANGED <<vars, decoder, mapper, server, docs>>
    \/ FetchRejectsStep /\ UNCHANGED <<vars, decoder, mapper, server, docs>>
SpecPreview == PreviewModalInit /\ [][PreviewNext]_allVars


(***************************************************************************)
(* Properties of the conversation hook (specification Spec).               *)
(***************************************************************************)
\* The calls that passed the guard and have not reached their finally block.
InFlight == {c \in DOMAIN calls : calls[c].pc # "done"}

\* What an operation of the hook can change, apart from the history
\* variable lastOp.
hookState ==
    <<messages, isLoading, error, abortControllerRef, isLoadingRef, calls, nextId>>

IsBlank(s) == \A i \in 1..Len(s) : s[i] \in Whitespace

\* u is s without its leading and trailing whitespace.
IsTrimOf(u, s) ==
    /\ u # <<>> => u[1] \notin Whitespace /\ u[Len(u)] \notin Whitespace
    /\ \E i \in 0..Len(s) :
          /\ i + Len(u) <= Len(s)
          /\ SubSeq(s, i + 1, i + Len(u)) = u
          /\ \A k \in (1..i) \cup ((i + Len(u) + 1)..Len(s)) : s[k] \in Whitespace

RECURSIVE Concat(_)
Concat(ts) == IF ts = <<>> THEN <<>> ELSE Head(ts) \o Concat(Tail(ts))

Positions(msgs, id) == {i \in 1..Len(msgs) : msgs[i].id = id}

\* C1: a sendMessage with non-empty content that is invoked while an
\* accepted call has not finished is rejected and changes nothing: no
\* message is appended, no request is issued, no state changes.
C1_SecondSendIsNoOp ==
    [][(lastOp'.op = "sendMessage" /\ InFlight # {})
          => (~lastOp'.accepted /\ UNCHANGED hookState)]_vars

C1_Witness ==
    /\ lastOp.op = "sendMessage"
    /\ ~lastOp.accepted
    /\ ~IsBlank(lastOp.content)
    /\ InFlight # {}
    /\ Cardinality({i \in 1..Len(messages) : messages[i].role = "user"}) = 1

\* C2: for every accepted sendMessage, the history passed to streamChat is
\* the {role, content} sequence of messages as it was immediately before the
\* user/placeholder pair of this turn was appended.
C2_HistoryIsPriorMessages ==
    \A c \in InFlight : calls[c].history = HistoryOf(calls[c].prior)

\* C3: an accepted sendMessage(content) appends exactly two messages in one
\* step, a user message with content trim(content) and then an assistant
\* placeholder with content "" and isStreaming = true; the earlier messages
\* are unchanged and isLoading becomes true.
C3_AcceptedSendAppendsPair ==
    [][(lastOp'.op = "sendMessage" /\ lastOp'.accepted)
          => LET n == Len(messages)
             IN  /\ Len(messages') = n + 2
                 /\ SubSeq(messages', 1, n) = messages
                 /\ messages'[n + 1].role = "user"
                 /\ messages'[n + 1].content.t = "string"
                 /\ IsTrimOf(messages'[n + 1].content.v, lastOp'.content)
                 /\ messages'[n + 2].role = "assistant"
                 /\ messages'[n + 2].content = Str(<<>>)
                 /\ messages'[n + 2].isStreaming
                 /\ messages'[n + 1].id # messages'[n + 2].id
                 /\ isLoading']_vars

C3_Witness ==
    /\ lastOp.op = "sendMessage"
    /\ lastOp.accepted
    /\ lastOp.content = <<" ", "a", " ">>
    /\ Len(messages) = 4
    /\ messages[3].content = Str(<<"a">>)
    /\ messages[4].isStreaming

\* C4: sendMessage with empty or whitespace-only content is a no-op in
\* every state: messages, isLoading, error and the in-flight flag are
\* unchanged and no request is issued.
C4_BlankSendIsNoOp ==
    [][(lastOp'.op = "sendMessage" /\ IsBlank(lastOp'.content))
          => (~lastOp'.accepted /\ UNCHANGED hookState)]_vars

C4_Witness ==
    /\ lastOp.op = "sendMessage"
    /\ lastOp.content = <<" ", " ">>
    /\ ~lastOp.accepted
    /\ ~isLoadingRef
    /\ InFlight = {}

\* C5: the token events of a request are folded in arrival order: as long
\* as no error event was folded, the placeholder's content is the
\* concatenation of the tokens folded so far, in that order.
C5_TokensAccumulateInOrder ==
    \A c \in InFlight :
        ~calls[c].sawError
            => \A i \in Positions(messages, calls[c].assistantId) :
                  messages[i].content = Str(Concat(calls[c].folded))

C5_Witness ==
    \E c \in InFlight :
        /\ calls[c].folded = <<(<<"x">>), (<<"y">>)>>
        /\ \E i \in Positions(messages, calls[c].assistantId) :
              messages[i].content = Str(<<"x", "y">>)

\* C6: when the event sequence of an accepted call ends (normal end, end
\* after an error event, thrown failure) the in-flight flag is cleared and
\* isLoading is false; the flag is never left set with no call in flight,
\* so the next sendMessage with non-empty content is accepted.
C6_FlagClearedWhenStreamEnds ==
    [][/\ InFlight' = {} => (~isLoadingRef' /\ ~isLoading')
       /\ (lastOp'.op = "sendMessage" /\ InFlight = {} /\ ~IsBlank(lastOp'.content))
             => lastOp'.accepted]_vars

C6_Witness ==
    /\ lastOp.op = "sendMessage"
    /\ lastOp.accepted
    /\ lastOp.call = 2
    /\ calls[1].pc = "done"

\* C7 as claimed: in every state with isLoading = true exactly one
\* assistant message has isStreaming = true.
C7_ExactlyOneStreamingWhileLoading ==
    isLoading
        => Cardinality({i \in 1..Len(messages) :
                           messages[i].role = "assistant" /\ messages[i].isStreaming}) = 1

\* C7 as amended: in every state with isLoading = true there is exactly one
\* request in flight; its placeholder occurs at most once in messages; as
\* long as messages was not cleared and no done or error event of this
\* request was folded, the placeholder is there, is an assistant message and
\* has isStreaming = true; and no other message appended by this request
\* has isStreaming = true.
C7_PlaceholderStreamingWhileLoading ==
    isLoading
        => /\ Cardinality(InFlight) = 1
           /\ \A c \in InFlight :
                 LET at == Positions(messages, calls[c].assistantId)
                 IN  /\ Cardinality(at) <= 1
                     /\ (~calls[c].cleared /\ ~calls[c].sawDone /\ ~calls[c].sawError)
                           => /\ at # {}
                              /\ \A i \in at : /\ messages[i].role = "assistant"
                                               /\ messages[i].isStreaming
                     /\ \A i \in 1..Len(messages) :
                           (messages[i].isStreaming /\ messages[i].id >= calls[c].userId)
                               => i \in at

C7_Witness ==
    /\ isLoading
    /\ \E c \in InFlight :
          /\ calls[c].pc = "read"
          /\ calls[c].folded # <<>>
          /\ \E i \in Positions(messages, calls[c].assistantId) :
                messages[i].isStreaming

\* C8: isLoading is true iff exactly one request is in flight; isLoading
\* and the in-flight flag never disagree; never more than one request is in
\* flight.
C8_LoadingIffOneInFlight ==
    /\ isLoading = isLoadingRef
    /\ Cardinality(InFlight) <= 1
    /\ isLoading <=> Cardinality(InFlight) = 1

C8_Witness ==
    /\ isLoading
    /\ lastOp.op = "sendMessage"
    /\ ~lastOp.accepted
    /\ \E c \in InFlight : calls[c].pc = "read" /\ calls[c].nEvents > 0

\* C9: folding an error event sets error to the table message of
\* event.code when the code is a recognized one and to event.message
\* otherwise, and sets the placeholder's content to the same text with
\* isStreaming = false.
C9_ErrorEventSetsErrorAndContent ==
    [][(lastOp'.op = "event" /\ lastOp'.ev.type = "error")
          => LET ev == lastOp'.ev
                 text == IF ev.code \in RecognizedCodes
                         THEN TableMessage(ev.code)
                         ELSE ev.message
             IN  /\ error' = text
                 /\ \A i \in Positions(messages', calls[lastOp'.call].assistantId) :
                       /\ messages'[i].content = text
                       /\ ~messages'[i].isStreaming]_vars

\* The outcome of a request that failed before any event: isLoading and the
\* flag are false, error is a non-empty string, and the user message and the
\* placeholder of this turn are still in messages, the placeholder with
\* isStreaming = false and content = error.  The part about messages is
\* required in every case (evenIfCleared) or only when clearMessages was
\* not called since the call was accepted.
EarlyFailureOutcome(evenIfCleared) ==
    (lastOp'.op = "throw" /\ lastOp'.early)
        => LET call == calls[lastOp'.call]
               at == Positions(messages', call.assistantId)
           IN  /\ ~isLoading'
               /\ ~isLoadingRef'
               /\ error'.t = "string"
               /\ error'.v # <<>>
               /\ (evenIfCleared \/ ~call.cleared)
                     => /\ at # {}
                        /\ \A i \in at :
                              /\ i > 1
                              /\ messages'[i - 1].id = call.userId
                              /\ messages'[i - 1].role = "user"
                              /\ ~messages'[i].isStreaming
                              /\ messages'[i].content = error'

\* C10 as claimed: when the request fails before any event, the turn ends
\* with the user message and the placeholder of this turn still in
\* messages, isLoading = false, error a non-empty string, and the
\* placeholder finalized with isStreaming = false and content = error.
C10_EarlyFailureKeepsPair == [][EarlyFailureOutcome(TRUE)]_vars

\* C10 as amended: when the request fails before any event, the turn ends
\* with isLoading = false and error a non-empty string, and, unless
\* clearMessages was called since the call was accepted, with the user
\* message and the placeholder of this turn still in messages, the
\* placeholder finalized with isStreaming = false and content = error.
C10_EarlyFailureKeepsPairUnlessCleared == [][EarlyFailureOutcome(FALSE)]_vars

C10_Witness ==
    /\ lastOp.op = "throw"
    /\ lastOp.early
    /\ Len(messages) = 2
    /\ messages[1].role = "user"
    /\ messages[2].role = "assistant"
    /\ ~messages[2].isStreaming
    /\ messages[2].content = error
    /\ error = Str(<<"Failed to fetch">>)
    /\ ~isLoading

\* C11: folding a done event sets isStreaming of the request's placeholder
\* to false and leaves the placeholder's content and sources, every other
\* message, and error unchanged.
C11_DoneOnlyClearsIsStreaming ==
    [][(lastOp'.op = "event" /\ lastOp'.ev.type = "done")
          => LET id == calls[lastOp'.call].assistantId
             IN  /\ error' = error
                 /\ Len(messages') = Len(messages)
                 /\ \A i \in 1..Len(messages) :
                       IF messages[i].id = id
                       THEN /\ ~messages'[i].isStreaming
                            /\ messages'[i].content = messages[i].content
                            /\ messages'[i].sources = messages[i].sources
                            /\ messages'[i].id = id
                       ELSE messages'[i] = messages[i]]_vars

C11_Witness ==
    /\ lastOp.op = "event"
    /\ lastOp.ev.type = "done"
    /\ Len(messages) = 2
    /\ messages[2].id = calls[lastOp.call].assistantId
    /\ messages[2].sources.set
    /\ ~messages[2].isStreaming

\* C14: when the response status is not ok or the response has no body,
\* streamChat throws "Chat request failed" / "No response body" before it
\* yields anything: the request has folded no event when it fails, the
\* thrown text becomes the error, and a request that has ended never folds
\* an event afterwards.
C14_RequestFailsBeforeAnyEvent ==
    [][/\ (lastOp'.op = "throw" /\ lastOp'.err \in {ChatRequestFailed, NoResponseBody})
           => /\ calls[lastOp'.call].pc = "fetch"
              /\ calls[lastOp'.call].nEvents = 0
              /\ calls'[lastOp'.call].pc = "done"
              /\ calls'[lastOp'.call].nEvents = 0
              /\ error' = lastOp'.err.message
       /\ \A c \in DOMAIN calls :
             calls[c].pc = "done" => calls'[c] = calls[c]
       /\ lastOp'.op = "event" => calls[lastOp'.call].pc = "read"]_vars

C14_Witness ==
    /\ lastOp.op = "throw"
    /\ lastOp.err = NoResponseBody
    /\ lastOp.call = 2
    /\ calls[1].nEvents = 0
    /\ calls[2].nEvents = 0
    /\ Len(messages) = 4
    /\ messages[2].content = ChatRequestFailed.message
    /\ messages[4].content = NoResponseBody.message
    /\ error = NoResponseBody.message

\* C15: clearMessages sets messages to the empty sequence and error to null
\* in every state, also while a request is streaming.
C15_ClearMessagesEmptiesAndClearsError ==
    [][lastOp'.op = "clearMessages" => (messages' = <<>> /\ error' = Null)]_vars

C15_Witness ==
    /\ lastOp.op = "clearMessages"
    /\ messages = <<>>
    /\ error = Null
    /\ isLoading
    /\ \E c \in InFlight :
          calls[c].pc = "read" /\ calls[c].sawError /\ calls[c].cleared

\* C16: clearError sets error to null and leaves messages, isLoading and
\* the in-flight flag unchanged, in every state.
C16_ClearErrorOnlyClearsError ==
    [][lastOp'.op = "clearError"
          => /\ error' = Null
             /\ UNCHANGED <<messages, isLoading, isLoadingRef>>]_vars

C16_Witness ==
    /\ lastOp.op = "clearError"
    /\ error = Null
    /\ isLoading
    /\ isLoadingRef
    /\ Len(messages) = 2
    /\ \E c \in InFlight : calls[c].sawError

\* C17: abandoning a streamChat sequence before end-of-stream releases the
\* connection: a call that has ended does not leave its response body
\* open.
C17_AbandonedStreamIsReleased ==
    \A c \in DOMAIN calls : calls[c].pc = "done" => c \notin openBodies

(***************************************************************************)
(* Properties of the frame decoder (specification SpecDecoder).            *)
(***************************************************************************)
\* The frames that are a well-formed event:/data: pair, and the event each
\* of them stands for.
WellFormedFrames == {"token", "accent"}
FrameEvent(f) ==
    IF f \in {"token", "double"}
    THEN [type |-> <<"t">>, data |-> [t |-> "number", v |-> <<"1">>]]
    ELSE [type |-> <<"U+00E9">>, data |-> [t |-> "number", v |-> <<"2">>]]

\* The events of the well-formed frames among frames, in order.
ExpectedEvents(frames) ==
    LET wellFormed == SelectSeq(frames, LAMBDA f : f \in WellFormedFrames \cup {"double"})
    IN  [i \in 1..Len(wellFormed) |-> FrameEvent(wellFormed[i])]

IsSuffix(u, s) ==
    Len(u) <= Len(s) /\ SubSeq(s, Len(s) - Len(u) + 1, Len(s)) = u

\* C12: fragmentation invariance: for a well-formed stream, however it is
\* cut into fragments, streamChat has yielded, when it returns, the same
\* sequence of events as when the whole stream arrives in one fragment.
C12_FragmentationInvariance ==
    (/\ decoder.pc = "returned"
     /\ decoder.tail = <<>>
     /\ \A i \in 1..Len(decoder.frames) : decoder.frames[i] \in WellFormedFrames)
        => decoder.yielded = ChunkDecoded(<<>>, <<>>, decoder.stream).loop.events

\* C13: a data line whose payload is not valid JSON yields no event and
\* stops nothing: when streamChat returns, the events of the well-formed
\* pairs that follow such a line in the stream have all been yielded, in
\* order, after anything yielded before.
C13_BadJsonDroppedLaterPairsEmitted ==
    decoder.pc = "returned"
        => \A i \in 1..Len(decoder.frames) :
              decoder.frames[i] = "badJson"
                  => IsSuffix(ExpectedEvents(SubSeq(decoder.frames, i + 1,
                                                    Len(decoder.frames))),
                              decoder.yielded)

(***************************************************************************)
(* Properties of the field mapper (specification SpecMapper).              *)
(***************************************************************************)
\* C18: parseSourcesFromAPI is total and order-preserving: the output has
\* the length of the input, element i of the output carries filename,
\* startLine, endLine, contentPreview equal to filename, start_line,
\* end_line, content_preview of element i of the input, and the empty list
\* maps to the empty list.
C18_MapperTotalOrderPreserving ==
    (mapper.pc = "returned" /\ mapper.kind = "wire")
        => /\ Len(mapper.output) = Len(mapper.input)
           /\ \A i \in 1..Len(mapper.input) :
                 /\ mapper.output[i].filename = mapper.input[i].filename
                 /\ mapper.output[i].startLine = mapper.input[i].start_line
                 /\ mapper.output[i].endLine = mapper.input[i].end_line
                 /\ mapper.output[i].contentPreview = mapper.input[i].content_preview
                 /\ DOMAIN mapper.output[i] =
                       {"filename", "startLine", "endLine", "contentPreview"}
           /\ mapper.input = <<>> => mapper.output = <<>>

C18_Witness ==
    /\ mapper.pc = "returned"
    /\ mapper.kind = "wire"
    /\ Len(mapper.input) = 2
    /\ mapper.input[1].filename = "b.md"
    /\ mapper.input[2].filename = "a.txt"
    /\ mapper.output[1].filename = "b.md"
    /\ mapper.output[1].startLine = 1
    /\ mapper.output[1].endLine = 10

BothTrue(health) ==
    /\ health # Null
    /\ health.model_loaded = True
    /\ health.vectorstore_ready = True

\* C20: after a health check completes, status is "ready" if and only if
\* the response reports model_loaded and vectorstore_ready both true; for
\* any other response, and when the check fails, status is "starting";
\* before the first check completes status is "checking".
C20_StatusFollowsHealthCheck ==
    [][/\ (server'.completed = server.completed + 1 /\ server'.last.op = "resolved")
           => /\ server'.status = "ready" <=> BothTrue(server'.last.health)
              /\ ~BothTrue(server'.last.health) => server'.status = "starting"
       /\ (server'.completed = server.completed + 1 /\ server'.last.op = "rejected")
           => server'.status = "starting"
       /\ server'.completed = 0 => server'.status = "checking"]_allVars

C20_Witness ==
    /\ server.last.op = "resolved"
    /\ BothTrue(server.last.health)
    /\ server.status = "ready"
    /\ server.completed = 2
    /\ server.retryCount = 1
    /\ server.timers[5000] = 0

\* C21: retry() sets status to "checking" at once and makes the effect run
\* again (it starts no check itself); the effect run starts exactly one
\* health check; and the result of a check that completes determines
\* status again, "ready" when the server reports both flags true.
C21_RetryTriggersOneCheck ==
    [][/\ (server'.last.op = "retry" /\ server' # server)
           => /\ server'.status = "checking"
              /\ server'.effectDue
              /\ server'.checks = server.checks
              /\ server'.completed = server.completed
       /\ (server'.last.op = "effect" /\ server' # server)
           => /\ server.effectDue
              /\ ~server'.effectDue
              /\ server'.checks = server.checks + 1
              /\ server'.status = server.status
       /\ (server'.completed = server.completed + 1 /\ server'.last.op = "resolved"
              /\ BothTrue(server'.last.health))
           => server'.status = "ready"]_allVars

C21_Witness ==
    /\ server.last.op = "effect"
    /\ server.status = "checking"
    /\ server.checks = 1
    /\ server.completed = 1
    /\ server.retryCount = 1
    /\ BothTrue(server.healthData)
    /\ server.timers = NoTimers

(***************************************************************************)
(* Properties of useDocuments (specification SpecDocuments)                *)
(***************************************************************************)
HasAllowedExtension(file) == \E ext \in allowedTypes : EndsWith(file.name, ext)

UploadOf(file) ==
    /\ docs' # docs
    /\ docs'.last.op = "upload"
    /\ docs'.last.file = file

\* C22: an upload of a file whose name has none of the allowed extensions,
\* or whose size is above maxFileSize, returns false and sets error to the
\* message of the violated constraint (invalidFileType for the extension,
\* fileTooLarge for the size of a file with an allowed extension); it
\* issues no request, leaves isUploading and documents as they were and
\* starts no call.
C22_InvalidUploadRejectedLocally ==
    [][\A file \in Files :
          (UploadOf(file) /\ (~HasAllowedExtension(file) \/ file.size > maxFileSize))
              => /\ docs'.last.returned = "false"
                 /\ docs'.error = IF ~HasAllowedExtension(file)
                                  THEN UI_TEXT_invalidFileType
                                  ELSE UI_TEXT_fileTooLarge
                 /\ docs'.requests = docs.requests
                 /\ docs'.ops = docs.ops
                 /\ docs'.isUploading = docs.isUploading
                 /\ docs'.documents = docs.documents]_allVars

InFlightOf(kind) == {o \in DOMAIN docs.ops : docs.ops[o].kind = kind /\ docs.ops[o].pc # "done"}

\* C23: isUploading (isRebuilding) is true only while an upload (rebuild)
\* that passed validation has not yet returned, and the step in which an
\* upload (rebuild) returns leaves its flag false, whether the call
\* succeeded or failed.
C23_BusyFlagsFollowTheCall ==
    [][/\ docs'.isUploading => InFlightOf("upload")' # {}
       /\ docs'.isRebuilding => InFlightOf("rebuild")' # {}
       /\ (docs' # docs /\ docs'.last.op = "returns" /\ docs'.last.kind = "upload")
              => ~docs'.isUploading
       /\ (docs' # docs /\ docs'.last.op = "returns" /\ docs'.last.kind = "rebuild")
              => ~docs'.isRebuilding]_allVars

C23_Witness ==
    /\ docs.last.op = "returns"
    /\ docs.last.kind = "upload"
    /\ ~docs.last.ok
    /\ ~docs.isUploading
    /\ \E o \in DOMAIN docs.ops : docs.ops[o].kind = "rebuild" /\ docs.ops[o].pc = "done"

(***************************************************************************)
(* Further properties of the conversation hook (specification Spec)        *)
(***************************************************************************)
\* C24: the failure path of a request (catch, useChat.ts lines 147-157)
\* changes content and isStreaming of no message but the placeholder
\* created by this request.
C24_CatchTouchesOnlyOwnPlaceholder ==
    [][(lastOp'.op = "throw" /\ calls' # calls)
          => /\ Len(messages') = Len(messages)
             /\ \A i \in 1..Len(messages) :
                    messages[i].id # calls[lastOp'.call].assistantId
                        => /\ messages'[i].content = messages[i].content
                           /\ messages'[i].isStreaming = messages[i].isStreaming]_allVars

\* C25: when no request is in flight (isLoading is false and the in-flight
\* flag is clear), no message has isStreaming = true.
C25_IdleHasNoStreamingMessage ==
    (isLoading = FALSE /\ ~isLoadingRef)
        => \A i \in 1..Len(messages) : ~messages[i].isStreaming

\* C26: after a done or error event of a stream finalized the placeholder,
\* no later event of that stream changes the placeholder's content,
\* sources or isStreaming.
C26_FinalizedPlaceholderIsFrozen ==
    [][(lastOp'.op = "event" /\ calls' # calls
            /\ (calls[lastOp'.call].sawDone \/ calls[lastOp'.call].sawError))
          => /\ Len(messages') = Len(messages)
             /\ \A i \in 1..Len(messages) :
                    messages[i].id = calls[lastOp'.call].assistantId
                        => /\ messages'[i].content = messages[i].content
                           /\ messages'[i].sources = messages[i].sources
                           /\ messages'[i].isStreaming = messages[i].isStreaming]_allVars

\* C30: folding a sources event sets the placeholder's sources to the
\* mapped list of that event, whatever was attached before (so after
\* several sources events the list of the last one is attached), and
\* leaves the placeholder's content and isStreaming and every other
\* message as they were.
C30_SourcesEventReplaces ==
    [][(lastOp'.op = "event" /\ calls' # calls /\ lastOp'.ev.type = "sources")
          => /\ Len(messages') = Len(messages)
             /\ \A i \in 1..Len(messages) :
                    IF messages[i].id = calls[lastOp'.call].assistantId
                    THEN /\ messages'[i].sources =
                               [set |-> TRUE,
                                list |-> parseSourcesFromAPI(lastOp'.ev.sources)]
                         /\ messages'[i].content = messages[i].content
                         /\ messages'[i].isStreaming = messages[i].isStreaming
                    ELSE messages'[i] = messages[i]]_allVars

\* The second of two sources events of one stream was folded, and it
\* carried the empty list.
C30_Witness ==
    /\ lastOp.op = "event"
    /\ lastOp.ev.type = "sources"
    /\ lastOp.ev.sources = <<>>
    /\ calls[lastOp.call].nEvents = 2
    /\ calls[lastOp.call].fullContent = <<>>
    /\ \E i \in 1..Len(messages) :
          /\ messages[i].id = calls[lastOp.call].assistantId
          /\ messages[i].isStreaming
          /\ messages[i].sources = [set |-> TRUE, list |-> <<>>]

(***************************************************************************)
(* Further properties of the frame decoder (specification SpecDecoder)     *)
(***************************************************************************)
\* The bytes reader.read() has handed over so far, and their text.
Consumed == SubSeq(decoder.stream, 1, Len(decoder.stream) - Len(decoder.unread))
ConsumedSegments == Split(Utf8Decode(Consumed).text)

IsEventLine(line) == StartsWith(line, EventPrefix)
IsDataLine(line) == StartsWith(line, DataPrefix)

\* C27: however the stream was cut into fragments, the lines processed so
\* far are exactly the lines of the text received so far that have their
\* line end, each once and in order, and what follows the last line end is
\* retained in buffer: a line cut by fragment boundaries is processed once,
\* as the complete line.
C27_SplitLineProcessedOnce ==
    /\ decoder.processed = SubSeq(ConsumedSegments, 1, Len(ConsumedSegments) - 1)
    /\ decoder.buffer = ConsumedSegments[Len(ConsumedSegments)]

\* The data line of a token frame was completed from the buffer, and the
\* stream's lines were processed once each.
C27_Witness ==
    /\ decoder.frames = <<"token">>
    /\ decoder.tail = <<>>
    /\ decoder.joined = <<DataPrefix \o <<"1">>>>
    /\ decoder.processed = <<EventPrefix \o <<"t">>, DataPrefix \o <<"1">>>>
    /\ decoder.buffer = <<>>

\* The lines of a sequence that could yield an event: data lines with an
\* event line before them and no data line in between.
MayYield(lines) ==
    {i \in 1..Len(lines) :
        /\ IsDataLine(lines[i])
        /\ \E j \in 1..(i - 1) :
              /\ IsEventLine(lines[j])
              /\ \A k \in (j + 1)..(i - 1) : ~IsDataLine(lines[k])}

\* C28: only a data line with a pending event name yields an event, and a
\* data line that consumes the name clears it, whether its payload parses
\* or not: every line that yielded is a data line that has an event line
\* before it with no data line in between, it yielded one event, and the
\* events yielded are no more than the event lines processed.
C28_DataLineNeedsPendingName ==
    /\ decoder.yieldedAt \subseteq MayYield(decoder.processed)
    /\ Len(decoder.yielded) = Cardinality(decoder.yieldedAt)
    /\ Len(decoder.yielded)
          <= Cardinality({i \in 1..Len(decoder.processed) :
                             IsEventLine(decoder.processed[i])})

\* After a frame whose payload does not parse, a frame with two data lines
\* after its event line: of the seven lines processed only the fifth, the
\* first data line of the second frame, yielded an event.
C28_Witness ==
    /\ decoder.frames = <<"badJson", "double">>
    /\ decoder.pc = "returned"
    /\ decoder.yieldedAt = {5}
    /\ decoder.yielded = <<[type |-> <<"t">>, data |-> [t |-> "number", v |-> <<"1">>]]>>

\* C29: when the stream ends with a line that has no line end, that line
\* is not processed and yields nothing, also when it is a data line and
\* the name of the event line before it was pending when the last for loop
\* ended: it is left in buffer when streamChat returns.
C29_TrailingPartialLineDiscarded ==
    (decoder.pc = "returned" /\ decoder.tail # <<>>)
        => /\ decoder.buffer = DataPrefix \o <<"2">>
           /\ Len(decoder.processed) = Len(ConsumedSegments) - 1
           /\ decoder.yieldedAt \subseteq 1..(Len(ConsumedSegments) - 1)
           /\ \A i \in 1..Len(decoder.yielded) :
                 decoder.yielded[i] # [type |-> <<"t">>,
                                       data |-> [t |-> "number", v |-> <<"2">>]]

C29_Witness ==
    /\ decoder.pc = "returned"
    /\ decoder.tail # <<>>
    /\ decoder.frames = <<"token">>
    /\ decoder.pending = Str(<<"t">>)
    /\ decoder.buffer = DataPrefix \o <<"2">>
    /\ Len(decoder.yielded) = 1

(***************************************************************************)
(* Properties of the conversation hook, continued (specification Spec)     *)
(***************************************************************************)
SourcesEvents == {ev \in Events : ev.type = "sources"}

\* Where request c folds the chunks event k: folding k and then a sources
\* event gives the messages that folding them in the other order gives.
ChunksCommuteWithSources(c, k) ==
    \A s \in SourcesEvents :
        FoldedMessages(FoldedMessages(messages, calls[c], k), calls[c], s)
            = FoldedMessages(FoldedMessages(messages, calls[c], s), calls[c], k)

\* C31: folding a chunks event sets chunks and chunkMeta of the placeholder
\* to the event's and changes nothing else: the placeholder's content,
\* sources and isStreaming, every other message, error, isLoading and the
\* in-flight flag stay as they were; and a chunks event and a sources event
\* give the same messages in either order.
C31_ChunksEventOnlyAttachesChunks ==
    [][(lastOp'.op = "event" /\ calls' # calls /\ lastOp'.ev.type = "chunks")
            => /\ Len(messages') = Len(messages)
               /\ \A i \in 1..Len(messages) :
                      IF messages[i].id = calls[lastOp'.call].assistantId
                      THEN messages'[i] =
                              [messages[i] EXCEPT !.chunks =
                                  [set |-> TRUE,
                                   chunks |-> lastOp'.ev.data.chunks,
                                   documentSet |-> lastOp'.ev.data.document_set,
                                   strategy |-> lastOp'.ev.data.strategy]]
                      ELSE messages'[i] = messages[i]
               /\ error' = error
               /\ isLoading' = isLoading
               /\ isLoadingRef' = isLoadingRef
               /\ ChunksCommuteWithSources(lastOp'.call, lastOp'.ev)]_allVars

\* A chunks event was folded after a sources event of the same stream.
C31_Witness ==
    /\ lastOp.op = "event"
    /\ lastOp.ev.type = "chunks"
    /\ calls[lastOp.call].nEvents = 2
    /\ \E i \in 1..Len(messages) :
          /\ messages[i].id = calls[lastOp.call].assistantId
          /\ messages[i].sources.set
          /\ messages[i].chunks.set
          /\ messages[i].isStreaming

KnownTags == {"token", "sources", "chunks", "done", "error"}

\* The frame "event: ping" / "data: 1", whose tag the hook does not know,
\* and the event streamChat yields for it.
PingFrame ==
    EventPrefix \o <<"p", "i", "n", "g", LF>> \o DataPrefix \o <<"1", LF, LF>>
PingFrameYieldsPing ==
    ChunkDecoded(<<>>, <<>>, PingFrame).loop.events
        = <<[type |-> <<"p", "i", "n", "g">>, data |-> [t |-> "number", v |-> <<"1">>]]>>

\* C32: streamChat yields a frame with an unknown tag as an event with
\* that tag, and folding an event whose tag is none of token, sources,
\* chunks, done, error leaves messages, error, isLoading and the in-flight
\* flag as they were.
C32_UnknownTagChangesNothing ==
    [][/\ (lastOp'.op = "event" /\ calls' # calls /\ lastOp'.ev.type \notin KnownTags)
            => /\ messages' = messages
               /\ error' = error
               /\ isLoading' = isLoading
               /\ isLoadingRef' = isLoadingRef
       /\ PingFrameYieldsPing]_allVars

\* An event with an unknown tag was folded while the placeholder was
\* streaming, after a token.
C32_Witness ==
    /\ lastOp.op = "event"
    /\ lastOp.ev.type = "ping"
    /\ calls[lastOp.call].nEvents = 2
    /\ calls[lastOp.call].fullContent # <<>>
    /\ isLoading = TRUE
    /\ \E i \in 1..Len(messages) :
          messages[i].id = calls[lastOp.call].assistantId /\ messages[i].isStreaming

\* The ids and roles of a message list, in order.
IdsAndRoles(msgs) == [i \in 1..Len(msgs) |-> <<msgs[i].id, msgs[i].role>>]

IsPrefix(u, s) == Len(u) <= Len(s) /\ SubSeq(s, 1, Len(u)) = u

\* C33: every step other than clearMessages leaves the ids and roles of
\* the messages as a prefix of the new ones; the list grows only in an
\* accepted sendMessage, and then by exactly two.
C33_MessagesAppendOnly ==
    [][/\ lastOp'.op # "clearMessages"
            => IsPrefix(IdsAndRoles(messages), IdsAndRoles(messages'))
       /\ Len(messages') > Len(messages)
            => /\ lastOp'.op = "sendMessage"
               /\ lastOp'.accepted
               /\ Len(messages') = Len(messages) + 2
       /\ (lastOp'.op = "sendMessage" /\ lastOp'.accepted /\ calls' # calls)
            => Len(messages') = Len(messages) + 2]_allVars

\* The second accepted sendMessage appended its pair after the pair of the
\* first turn, whose request had failed.
C33_Witness ==
    /\ lastOp.op = "sendMessage"
    /\ lastOp.accepted
    /\ Len(messages) = 4
    /\ messages[2].role = "assistant"
    /\ ~messages[2].isStreaming
    /\ messages[2].content # Str(<<>>)
    /\ messages[3].id > messages[2].id

\* C34: messages has even length and its roles alternate, beginning with
\* user: each user message is directly followed by the assistant message
\* created with it (the next id).
C34_RolesAlternate ==
    /\ Len(messages) % 2 = 0
    /\ \A i \in 1..Len(messages) :
          IF i % 2 = 1
          THEN /\ messages[i].role = "user"
               /\ messages[i + 1].id = messages[i].id + 1
          ELSE messages[i].role = "assistant"

\* Two turns are in the list: the first was finalized, the second is
\* streaming.
C34_Witness ==
    /\ Len(messages) = 4
    /\ ~messages[2].isStreaming
    /\ messages[4].isStreaming
    /\ messages[4].content # Str(<<>>)

\* C35: for every accepted sendMessage, the message given to streamChat
\* (the message of the POST body) is the content of the user message that
\* the call appended to messages.
C35_SentMessageIsUserContent ==
    [][(lastOp'.op = "sendMessage" /\ lastOp'.accepted /\ calls' # calls)
          => \E i \in 1..Len(messages') :
                /\ messages'[i].id = calls'[lastOp'.call].userId
                /\ messages'[i].role = "user"
                /\ calls'[lastOp'.call].message = messages'[i].content]_allVars

AcceptedSend == lastOp'.op = "sendMessage" /\ calls' # calls

\* C36: after clearMessages during a request, no event and no failure of
\* that request puts a message back: an empty list stays empty in every
\* step but an accepted sendMessage, a request that was cleared and is
\* still in flight sees the empty list, and no sendMessage is accepted
\* while a request is in flight.
C36_ClearedStaysEmptyWhileInFlight ==
    [][/\ (messages = <<>> /\ ~AcceptedSend) => messages' = <<>>
       /\ \A c \in InFlight' : calls'[c].cleared => messages' = <<>>
       /\ AcceptedSend => (InFlight = {} /\ ~isLoadingRef)
       /\ InFlight' # {} => isLoadingRef']_allVars

\* A token was folded by a request after clearMessages: the list is empty
\* and the flag is set.
C36_Witness ==
    /\ lastOp.op = "event"
    /\ lastOp.ev.type = "token"
    /\ calls[lastOp.call].cleared
    /\ calls[lastOp.call].fullContent # <<>>
    /\ messages = <<>>
    /\ isLoadingRef

\* C37: an accepted sendMessage sets error to null in the step that sets
\* the in-flight flag; error goes from null to a value only in a step of
\* the request in flight that folds an error event or handles a failure;
\* so while a request is in flight, an error that is set comes from an
\* error event of this request.
C37_ErrorResetPerTurn ==
    [][/\ AcceptedSend => (error' = Null /\ ~isLoadingRef /\ isLoadingRef')
       /\ (error = Null /\ error' # Null)
            => /\ lastOp'.op \in {"event", "throw"}
               /\ lastOp'.call \in InFlight
               /\ lastOp'.op = "event" => lastOp'.ev.type = "error"
       /\ \A c \in InFlight' : error' # Null => calls'[c].sawError]_allVars

\* The second turn was accepted after the request of the first failed:
\* the failure text is in the first placeholder, error is null again.
C37_Witness ==
    /\ lastOp.op = "sendMessage"
    /\ lastOp.accepted
    /\ lastOp.call = 2
    /\ Len(messages) = 4
    /\ messages[2].content = Str(<<"Failed to fetch">>)
    /\ error = Null
    /\ isLoadingRef

ClearsMessages == messages # <<>> /\ messages' = <<>>
ClearsError == error # Null /\ error' = Null

\* C38: error and messages have independent lifecycles: no step clears
\* both, a step that clears error leaves messages in place and a step that
\* clears messages leaves error in place.
C38_IndependentLifecycles ==
    [][/\ ClearsError => ~ClearsMessages
       /\ ClearsMessages => error' = error]_allVars

\* C38 as amended: clearing error never clears messages (clearError leaves
\* messages unchanged, the reset of error in an accepted sendMessage only
\* appends to it), but not the other way round: the one operation that
\* empties messages, clearMessages, sets error to null in the same step.
C38_ClearErrorKeepsMessagesOnly ==
    [][/\ (ClearsError /\ lastOp'.op # "clearMessages")
            => /\ lastOp'.op \in {"clearError", "sendMessage"}
               /\ IsPrefix(messages, messages')
               /\ lastOp'.op = "clearError" => messages' = messages
       /\ ClearsMessages => (lastOp'.op = "clearMessages" /\ error' = Null)
       /\ (lastOp'.op = "clearMessages" /\ error # Null) => ClearsError]_allVars

\* clearMessages was called on the idle hook after a turn had ended.
C38_Witness ==
    /\ lastOp.op = "clearMessages"
    /\ messages = <<>>
    /\ error = Null
    /\ ~isLoading
    /\ Len(calls) = 1
    /\ calls[1].pc = "done"
    /\ calls[1].nEvents = 1

(***************************************************************************)
(* Polling of useServerStatus (specification SpecStatusLive)               *)
(***************************************************************************)
PendingTimers(s) == s.timers[3000] + s.timers[5000]
CheckCompletes == server'.completed = server.completed + 1

\* C39: a health check that ends in "starting" schedules exactly one timer
\* (and so one further check), a check that ends in "ready" schedules
\* none; once the backend answers every check with both flags true, status
\* becomes "ready", and from "ready" it changes only by retry().
C39_PollsUntilReady ==
    /\ [][/\ (CheckCompletes /\ server'.status = "starting")
               => /\ PendingTimers(server') = PendingTimers(server) + 1
                  /\ server'.checks = server.checks - 1
          /\ (CheckCompletes /\ server'.status = "ready")
               => /\ PendingTimers(server') = PendingTimers(server)
                  /\ server'.checks = server.checks - 1
                  /\ ~server'.effectDue \/ server.effectDue
          /\ CheckCompletes => server'.status \in {"starting", "ready"}
          /\ (server.healthy /\ server.status = "ready" /\ server'.status # "ready")
               => server'.last.op = "retry"]_allVars
    /\ server.healthy ~> (server.status = "ready")

\* The backend became healthy while the hook was polling: the check after
\* a timer was answered with both flags true and nothing is pending.
C39_Witness ==
    /\ server.healthy
    /\ server.status = "ready"
    /\ server.last.op = "resolved"
    /\ server.completed = 2
    /\ server.retryCount = 1
    /\ server.checks = 0
    /\ ~server.effectDue
    /\ server.timers = NoTimers

(***************************************************************************)
(* DocumentPreviewModal (specification SpecPreview)                        *)
(***************************************************************************)
NoLoadInProgress(p) == ~p.isLoading /\ p.pending = NoFetches

\* C40: whenever the modal shows content and no load is in progress, the
\* content shown is the content of the document selected now; a late
\* response for a document selected earlier is never what is displayed.
C40_ShownContentIsOfSelectedDocument ==
    (Displayed(preview).kind = "content" /\ NoLoadInProgress(preview))
        => Displayed(preview).text = ContentOfDocument(preview.doc.id)

====
